---- MODULE Spec2Model ----
(***************************************************************************)
(* Whiteboard server (server.js): the per-user flat-file note store, the   *)
(* share registry and the backup import, as a state machine.               *)
(*                                                                         *)
(* disk   the persisted files: users.json, _system/users-index.json, each  *)
(*        user's directory, notes directory, database.json, notes/<id>.md, *)
(*        notes/media/<id>, legacy note directories, shared/<token>.json   *)
(* clock  the wall clock read by new Date()                                *)
(* shareSeq  how many share tokens crypto.randomBytes(16) has produced     *)
(* resp   the last completed request and its HTTP response                 *)
(* procs  the requests in flight, each at one of its await points          *)
(***************************************************************************)
EXTENDS Integers, Sequences, FiniteSets, TLC

VARIABLES disk, clock, shareSeq, resp, procs

vars == <<disk, clock, shareSeq, resp, procs>>

----------------------------------------------------------------------------
(* Bounds of the model *)

\* new Date() is read at most MaxClock times
MaxClock == 2
\* crypto.randomBytes(16) produces at most MaxShares share tokens
MaxShares == 2

----------------------------------------------------------------------------
(* JavaScript values *)

\* an absent string property, or a request field that was not sent
Undef == "undefined"
\* an absent array property
UndefList == <<"undefined">>
\* an absent password hash
NoHash == <<>>
\* an absent timestamp
NoTime == -1
\* booleans of a request body, which may also be absent (Undef)
JsTrue == "true"
JsFalse == "false"

\* x || fallback, on strings and on optional booleans
Truthy(x) == x \notin {Undef, "", JsFalse}
OrElse(x, fallback) == IF Truthy(x) THEN x ELSE fallback
\* arr || fallback: every array, the empty one too, is truthy
TruthyList(a) == a # UndefList
OrElseList(a, fallback) == IF TruthyList(a) THEN a ELSE fallback

\* bcrypt.hash(password, 10): salted, so two hashes of one password differ
Hash(password, salt) == <<password, salt>>
\* bcrypt.compare(password, hash)
Compare(password, hash) == hash # NoHash /\ hash[1] = password

----------------------------------------------------------------------------
(* Identifiers *)

Users == {"admin", "bob"}
DemoNoteIds == {"welcome"}
NoteIds == DemoNoteIds \cup {"n1"}
\* the tokens crypto.randomBytes(16).toString('hex') produces, in order
ShareTokens == <<"s1", "s2", "s3">>
\* a token produced before this run, carried by backup documents
OldToken == "s0"

NoNote == "none"
NoUser == "nobody"

----------------------------------------------------------------------------
(* Notes *)

\* const { markdown, ...metadata } = data
MetadataOf(data) == [f \in DOMAIN data \ {"markdown"} |-> data[f]]

\* { ...noteMetadata, markdown }
WithMarkdown(metadata, markdown) ==
    [f \in DOMAIN metadata \cup {"markdown"} |->
        IF f = "markdown" THEN markdown ELSE metadata[f]]

\* the value of a failed read; found = FALSE stands for the thrown ENOENT
NoData ==
    [title |-> Undef, markdown |-> Undef, tags |-> UndefList, groups |-> UndefList,
     isPasswordProtected |-> Undef, password |-> NoHash, shareId |-> Undef,
     createdAt |-> NoTime, updatedAt |-> NoTime]

NotFound == [found |-> FALSE, data |-> NoData]
Found(data) == [found |-> TRUE, data |-> data]

\* { notes: {} }
EmptyDatabase == [n \in {} |-> MetadataOf(NoData)]

\* database.notes[noteId] = metadata
PutNote(database, noteId, metadata) ==
    [n \in DOMAIN database \cup {noteId} |->
        IF n = noteId THEN metadata ELSE database[n]]

\* delete database.notes[noteId]
DropNote(database, noteId) == [n \in DOMAIN database \ {noteId} |-> database[n]]

----------------------------------------------------------------------------
(* Files *)

\* f with key k set to v (a file written), and with key k removed (unlinked)
Put(f, k, v) == [x \in DOMAIN f \cup {k} |-> IF x = k THEN v ELSE f[x]]
Drop(f, k) == [x \in DOMAIN f \ {k} |-> f[x]]

\* path.basename for the user names of the model: the part after the last "/"
Basename(name) == CASE name = "x/bob" -> "bob" [] OTHER -> name

\* path.join(DATA_DIR, path.basename(userId)): the directory is named by the last
\* component of the user name
GetUserDir(userId) == Basename(userId)

\* path.join(userDir, ...): the files of one note are keyed by the user's
\* directory and the note
Key(userId, noteId) == <<GetUserDir(userId), noteId>>

\* fs.writeFile(USERS_INDEX_FILE, ...) appending userId when it is not listed
AddUserToSystemIndex(d, userId) ==
    IF ~d.usersIndexExists THEN d
    ELSE IF \E i \in 1..Len(d.usersIndex) : d.usersIndex[i] = userId THEN d
    ELSE [d EXCEPT !.usersIndex = Append(@, userId)]

\* the three access/create blocks of ensureUserDir
EnsureUserDir(d, userId) ==
    LET dir == GetUserDir(userId)
        d1 == IF dir \in d.userDirs THEN d
              ELSE AddUserToSystemIndex(
                       [d EXCEPT !.userDirs = @ \cup {dir},
                                 !.notesDirs = @ \cup {dir},
                                 !.db = Put(@, dir, EmptyDatabase),
                                 !.torn = @ \ {dir}],
                       userId)
        d2 == [d1 EXCEPT !.notesDirs = @ \cup {dir}]
    IN  IF dir \in DOMAIN d2.db THEN d2
        ELSE [d2 EXCEPT !.db = Put(@, dir, EmptyDatabase)]

\* JSON.parse of database.json; a missing file, or one caught half-written
\* (torn), gives { notes: {} }
LoadUserDatabase(d, userId) ==
    IF GetUserDir(userId) \in DOMAIN d.db /\ GetUserDir(userId) \notin d.torn
    THEN d.db[GetUserDir(userId)]
    ELSE EmptyDatabase

\* fs.writeFile(dbPath, ...) needs the user's directory
CanSaveUserDatabase(d, userId) == GetUserDir(userId) \in d.userDirs

SaveUserDatabase(d, userId, database) ==
    [d EXCEPT !.db = Put(@, GetUserDir(userId), database),
              !.torn = @ \ {GetUserDir(userId)}]

\* fs.writeFile(notePath, ...) needs the user's notes directory
CanWriteNoteFile(d, userId) == GetUserDir(userId) \in d.notesDirs

\* the legacy shapes under data/<user>/<noteId>/: metadata.json + content.md first,
\* then note.json; the read throws when neither parses
ReadLegacyNoteData(d, userId, noteId) ==
    LET k == Key(userId, noteId)
    IN  IF k \in DOMAIN d.legacyMeta
        THEN Found(WithMarkdown(d.legacyMeta[k],
                 IF k \in DOMAIN d.legacyContent THEN d.legacyContent[k] ELSE ""))
        ELSE IF k \in DOMAIN d.legacyNote THEN Found(d.legacyNote[k])
        ELSE NotFound

\* fs.readFile(notePath) throws for a missing file and for one the process cannot
\* read (d.unreadable)
CanReadNoteFile(d, userId, noteId) ==
    Key(userId, noteId) \in DOMAIN d.notes \ d.unreadable

\* the markdown file of an indexed note, '' when the read throws
ReadNoteFile(d, userId, noteId) ==
    IF CanReadNoteFile(d, userId, noteId) THEN d.notes[Key(userId, noteId)] ELSE ""

ReadNoteData(d, userId, noteId) ==
    LET database == LoadUserDatabase(d, userId)
    IN  IF noteId \notin DOMAIN database
        THEN ReadLegacyNoteData(d, userId, noteId)
        ELSE Found(WithMarkdown(database[noteId], ReadNoteFile(d, userId, noteId)))

\* fs.writeFile(notePath, markdown || '')
WriteNoteFile(d, userId, noteId, markdown) ==
    [d EXCEPT !.notes = Put(@, Key(userId, noteId), OrElse(markdown, ""))]

\* writeNoteData without its markdown write
WriteNoteDataIndexOnly(d, userId, noteId, data) ==
    IF ~CanSaveUserDatabase(d, userId) THEN d
    ELSE SaveUserDatabase(d, userId,
             PutNote(LoadUserDatabase(d, userId), noteId, MetadataOf(data)))

\* writeNoteData resolves only when both writes succeeded
WriteNoteDataOk(d, userId) ==
    CanSaveUserDatabase(d, userId) /\ CanWriteNoteFile(d, userId)

\* the index entry first, the markdown file second; a failing write throws and
\* leaves what was written before it
WriteNoteData(d, userId, noteId, data) ==
    IF ~CanSaveUserDatabase(d, userId) THEN d
    ELSE LET database == LoadUserDatabase(d, userId)
             d1 == SaveUserDatabase(d, userId,
                       PutNote(database, noteId, MetadataOf(data)))
         IN  IF ~CanWriteNoteFile(d1, userId) THEN d1
             ELSE WriteNoteFile(d1, userId, noteId, data.markdown)

----------------------------------------------------------------------------
(* GET /api/files *)

\* the preview of a markdown text: '' for an empty text
Summary(markdown) == IF markdown = "" THEN "" ELSE "summary of " \o markdown

\* the record getNotesForUser pushes for one index entry
ListEntry(d, userId, noteId) ==
    LET metadata == LoadUserDatabase(d, userId)[noteId]
    IN  [id |-> noteId,
         name |-> OrElse(metadata.title, "Untitled"),
         tags |-> OrElseList(metadata.tags, <<>>),
         groups |-> OrElseList(metadata.groups, <<>>),
         isPasswordProtected |-> OrElse(metadata.isPasswordProtected, JsFalse),
         isShared |-> Truthy(metadata.shareId),
         shareId |-> metadata.shareId,
         createdAt |-> metadata.createdAt,
         updatedAt |-> metadata.updatedAt,
         summary |-> Summary(ReadNoteFile(d, userId, noteId))]

\* a sort by updatedAt, oldest first
RECURSIVE SortOldestFirst(_)
SortOldestFirst(entries) ==
    IF entries = {} THEN <<>>
    ELSE LET first == CHOOSE e \in entries :
                          \A other \in entries : e.updatedAt <= other.updatedAt
         IN  <<first>> \o SortOldestFirst(entries \ {first})

\* notes.sort by updatedAt, most recent first; the index keeps no insertion
\* order, so entries of equal updatedAt come in an arbitrary fixed order
RECURSIVE SortByUpdatedAt(_)
SortByUpdatedAt(entries) ==
    IF entries = {} THEN <<>>
    ELSE LET first == CHOOSE e \in entries :
                          \A other \in entries : e.updatedAt >= other.updatedAt
         IN  <<first>> \o SortByUpdatedAt(entries \ {first})

GetNotesForUser(d, userId) ==
    SortByUpdatedAt({ListEntry(d, userId, n) : n \in DOMAIN LoadUserDatabase(d, userId)})

----------------------------------------------------------------------------
(* Requests and responses *)

\* op, userId, noteId, password, prot: the request (prot: its isPasswordProtected);
\* status, token: the response; wrote: the handler called writeNoteData; data: the
\* note it handed to writeNoteData, else the note it read; list: the records of
\* GET /api/files; importedUsers, importedNotes: the counts an import reports;
\* existed: which of a note's index entry, markdown file and media directory were
\* on disk when a delete began; backup: the document an import was given;
\* document: the backup an export sends; query, results: of a search; dryRun: a
\* script ran without --execute; created, kept: the users whose database.json
\* init-existing-users wrote and left alone; migrated, skipped: the note
\* directories a migration read and could not read
Response(op, userId, noteId, status, token, password, data) ==
    [op |-> op, userId |-> userId, noteId |-> noteId, status |-> status,
     token |-> token, password |-> password, prot |-> Undef, wrote |-> FALSE,
     data |-> data, list |-> <<>>, importedUsers |-> 0, importedNotes |-> 0,
     existed |-> {}, backup |-> "none", document |-> <<>>, query |-> Undef,
     results |-> {}, dryRun |-> FALSE, created |-> {}, kept |-> {}, migrated |-> {},
     skipped |-> {}]

Wrote(response, prot) == [response EXCEPT !.wrote = TRUE, !.prot = prot]

NoResponse == Response("none", NoUser, NoNote, 0, Undef, Undef, NoData)

\* the status of a handler whose last await is writeNoteData
WriteStatus(d, userId) == IF WriteNoteDataOk(d, userId) THEN 200 ELSE 500

\* the users that hold a session: those with an account
SessionUsers == DOMAIN disk.users

\* crypto.randomBytes: an identifier nothing on disk refers to
UnusedNoteId(d, userId, noteId) ==
    /\ noteId \notin DOMAIN LoadUserDatabase(d, userId)
    /\ Key(userId, noteId) \notin
           DOMAIN d.notes \cup DOMAIN d.legacyMeta \cup DOMAIN d.legacyNote \cup d.media
    /\ \A t \in DOMAIN d.shared :
           ~(d.shared[t].userId = userId /\ d.shared[t].noteId = noteId)

----------------------------------------------------------------------------
(* POST /api/file/:noteId *)

\* the data object before the existing note is consulted
NewData(body, now) ==
    [title |-> OrElse(body.title, "Untitled"),
     markdown |-> body.markdown,
     tags |-> OrElseList(body.tags, <<>>),
     groups |-> OrElseList(body.groups, <<>>),
     isPasswordProtected |-> OrElse(body.isPasswordProtected, JsFalse),
     password |-> NoHash,
     shareId |-> Undef,
     createdAt |-> now,
     updatedAt |-> now]

\* the password hash a save stores: a new hash when a password is sent, the
\* existing hash when protection stays on, none otherwise
SavePassword(existing, body, now) ==
    IF Truthy(body.isPasswordProtected) /\ Truthy(body.password)
    THEN Hash(body.password, now)
    ELSE IF existing.found /\ Truthy(body.isPasswordProtected)
            /\ existing.data.password # NoHash
    THEN existing.data.password
    ELSE NoHash

\* a save that stamps createdAt anew
SaveDataFresh(existing, body, now) ==
    LET data == NewData(body, now)
    IN  IF existing.found
        THEN [data EXCEPT
                 !.shareId = existing.data.shareId,
                 !.groups = IF ~TruthyList(body.groups)
                            THEN OrElseList(existing.data.groups, <<>>) ELSE @,
                 !.password = SavePassword(existing, body, now)]
        ELSE [data EXCEPT !.password = SavePassword(existing, body, now)]

\* createdAt and shareId are carried over from the existing note, groups too when
\* the request sends none
SaveData(existing, body, now) ==
    LET data == NewData(body, now)
    IN  IF existing.found
        THEN [data EXCEPT
                 !.createdAt = existing.data.createdAt,
                 !.shareId = existing.data.shareId,
                 !.groups = IF ~TruthyList(body.groups)
                            THEN OrElseList(existing.data.groups, <<>>) ELSE @,
                 !.password = SavePassword(existing, body, now)]
        ELSE [data EXCEPT !.password = SavePassword(existing, body, now)]

SaveFile(userId, noteId, body) ==
    /\ clock < MaxClock
    /\ LET now == clock + 1
           d1 == EnsureUserDir(disk, userId)
           data == SaveData(ReadNoteData(d1, userId, noteId), body, now)
       IN  /\ disk' = WriteNoteData(d1, userId, noteId, data)
           /\ resp' = Wrote(Response("save", userId, noteId, WriteStatus(d1, userId),
                                     Undef, body.password, data),
                            body.isPasswordProtected)
    /\ clock' = clock + 1
    /\ UNCHANGED <<shareSeq, procs>>

----------------------------------------------------------------------------
(* POST /api/files/new *)

NewFile(userId, noteId, name) ==
    /\ clock < MaxClock
    /\ UnusedNoteId(disk, userId, noteId)
    /\ LET now == clock + 1
           d1 == EnsureUserDir(disk, userId)
           data == NewData([title |-> name, markdown |-> "", tags |-> <<>>,
                            groups |-> <<>>, isPasswordProtected |-> JsFalse], now)
       IN  /\ disk' = WriteNoteData(d1, userId, noteId, data)
           /\ resp' = Wrote(Response("new", userId, noteId, WriteStatus(d1, userId),
                                     Undef, Undef, data), Undef)
    /\ clock' = clock + 1
    /\ UNCHANGED <<shareSeq, procs>>

----------------------------------------------------------------------------
(* POST /api/file/metadata/:noteId *)

\* a metadata update without its "delete data.password"
MetadataPasswordKept(data, body, now) ==
    IF Truthy(body.isPasswordProtected) /\ Truthy(body.password)
    THEN Hash(body.password, now)
    ELSE data.password

\* turning protection off removes the hash; turning it on with a password stores a
\* new one
MetadataPassword(data, body, now) ==
    IF body.isPasswordProtected = Undef THEN data.password
    ELSE IF Truthy(body.isPasswordProtected) /\ Truthy(body.password)
    THEN Hash(body.password, now)
    ELSE IF ~Truthy(body.isPasswordProtected) THEN NoHash
    ELSE data.password

MetadataData(data, body, now) ==
    [data EXCEPT
        !.tags = IF body.tags # UndefList THEN body.tags ELSE @,
        !.groups = IF body.groups # UndefList THEN body.groups ELSE @,
        !.isPasswordProtected =
            IF body.isPasswordProtected # Undef THEN body.isPasswordProtected ELSE @,
        !.password = MetadataPassword(data, body, now),
        !.updatedAt = now]

UpdateMetadata(userId, noteId, body) ==
    /\ clock < MaxClock
    /\ LET now == clock + 1
           existing == ReadNoteData(disk, userId, noteId)
           data == MetadataData(existing.data, body, now)
       IN  IF ~existing.found
           THEN /\ resp' = Response("metadata", userId, noteId, 500, Undef,
                                    body.password, NoData)
                /\ UNCHANGED <<disk, clock>>
           ELSE /\ disk' = WriteNoteData(disk, userId, noteId, data)
                /\ resp' = Wrote(Response("metadata", userId, noteId,
                                          WriteStatus(disk, userId), Undef,
                                          body.password, data),
                                 body.isPasswordProtected)
                /\ clock' = clock + 1
    /\ UNCHANGED <<shareSeq, procs>>

----------------------------------------------------------------------------
(* POST /api/file/share/:noteId and DELETE /api/file/share/:noteId *)

\* fs.writeFile(SHARED_DIR/<token>.json, { userId, noteId, createdAt })
WriteShareFile(d, token, userId, noteId, now) ==
    [d EXCEPT !.shared =
        Put(@, token, [userId |-> userId, noteId |-> noteId, createdAt |-> now])]

\* fs.unlink(SHARED_DIR/<token>.json); a missing file is logged, not thrown
UnlinkShareFile(d, token) == [d EXCEPT !.shared = Drop(@, token)]

\* a share that writes the note and no share file
ShareEffectNoFile(d, userId, noteId, data, token, now) ==
    WriteNoteData(d, userId, noteId, [data EXCEPT !.shareId = token, !.updatedAt = now])

\* the note is written first, the share file second
ShareEffect(d, userId, noteId, data, token, now) ==
    LET shared == [data EXCEPT !.shareId = token, !.updatedAt = now]
        d1 == WriteNoteData(d, userId, noteId, shared)
    IN  IF WriteNoteDataOk(d, userId)
        THEN WriteShareFile(d1, token, userId, noteId, now)
        ELSE d1

\* a share handler that never finds an existing share identifier
HasShareNever(data) == FALSE

\* if (!data.shareId): a note that has a share identifier gets no new one
HasShare(data) == Truthy(data.shareId)

GenerateShare(userId, noteId) ==
    LET existing == ReadNoteData(disk, userId, noteId)
        now == clock + 1
        token == ShareTokens[shareSeq + 1]
    IN  IF ~existing.found
        THEN /\ resp' = Response("share", userId, noteId, 500, Undef, Undef, NoData)
             /\ UNCHANGED <<disk, clock, shareSeq, procs>>
        ELSE IF HasShare(existing.data)
        THEN /\ resp' = Response("share", userId, noteId, 200,
                                 existing.data.shareId, Undef, existing.data)
             /\ UNCHANGED <<disk, clock, shareSeq, procs>>
        ELSE /\ clock < MaxClock
             /\ shareSeq < MaxShares
             /\ disk' = ShareEffect(disk, userId, noteId, existing.data, token, now)
             /\ resp' = Wrote(Response("share", userId, noteId,
                                       WriteStatus(disk, userId),
                                       IF WriteNoteDataOk(disk, userId) THEN token
                                       ELSE Undef,
                                       Undef,
                                       [existing.data EXCEPT !.shareId = token,
                                                             !.updatedAt = now]),
                              Undef)
             /\ clock' = clock + 1
             /\ shareSeq' = shareSeq + 1
             /\ UNCHANGED procs

\* the share file is unlinked first, then the note is written without its shareId
RevokeEffect(d, userId, noteId, data, now) ==
    WriteNoteData(UnlinkShareFile(d, data.shareId), userId, noteId,
                  [data EXCEPT !.shareId = Undef, !.updatedAt = now])

RemoveShare(userId, noteId) ==
    LET existing == ReadNoteData(disk, userId, noteId)
        now == clock + 1
    IN  IF ~existing.found
        THEN /\ resp' = Response("revoke", userId, noteId, 500, Undef, Undef, NoData)
             /\ UNCHANGED <<disk, clock, shareSeq, procs>>
        ELSE IF ~Truthy(existing.data.shareId)
        THEN /\ resp' = Response("revoke", userId, noteId, 200, Undef, Undef,
                                 existing.data)
             /\ UNCHANGED <<disk, clock, shareSeq, procs>>
        ELSE /\ clock < MaxClock
             /\ disk' = RevokeEffect(disk, userId, noteId, existing.data, now)
             /\ resp' = Wrote(Response("revoke", userId, noteId,
                                       WriteStatus(disk, userId),
                                       existing.data.shareId, Undef,
                                       [existing.data EXCEPT !.shareId = Undef,
                                                             !.updatedAt = now]),
                              Undef)
             /\ clock' = clock + 1
             /\ UNCHANGED <<shareSeq, procs>>

----------------------------------------------------------------------------
(* DELETE /api/file/:noteId *)

\* fs.unlink(notePath) inside try/catch
UnlinkNoteFile(d, userId, noteId) ==
    [d EXCEPT !.notes = Drop(@, Key(userId, noteId))]

\* fs.rm(mediaDir, { recursive: true, force: true })
RemoveMediaDir(d, userId, noteId) ==
    [d EXCEPT !.media = @ \ {Key(userId, noteId)}]

\* a delete that stops at the first artefact it does not find
DeleteEffectStopping(d, userId, noteId) ==
    IF ~CanSaveUserDatabase(d, userId) THEN d
    ELSE LET d1 == SaveUserDatabase(d, userId,
                       DropNote(LoadUserDatabase(d, userId), noteId))
         IN  IF Key(userId, noteId) \notin DOMAIN d.notes THEN d1
             ELSE [d1 EXCEPT !.notes = Drop(@, Key(userId, noteId)),
                             !.media = @ \ {Key(userId, noteId)}]

\* the index entry, the markdown file, the media directory; only the index write
\* can throw
DeleteEffect(d, userId, noteId) ==
    IF ~CanSaveUserDatabase(d, userId) THEN d
    ELSE RemoveMediaDir(
             UnlinkNoteFile(
                 SaveUserDatabase(d, userId,
                     DropNote(LoadUserDatabase(d, userId), noteId)),
                 userId, noteId),
             userId, noteId)

\* a delete whose fs.unlink is not inside try/catch
DeleteStatusUnlinkThrows(d, userId, noteId) ==
    IF CanSaveUserDatabase(d, userId) /\ Key(userId, noteId) \in DOMAIN d.notes
    THEN 200 ELSE 500

\* 200 unless the index write threw; a missing markdown file or media directory
\* is not an error
DeleteStatus(d, userId, noteId) == IF CanSaveUserDatabase(d, userId) THEN 200 ELSE 500

\* which of the three artefacts of a note are on disk
Artefacts(d, userId, noteId) ==
    (IF noteId \in DOMAIN LoadUserDatabase(d, userId) THEN {"index"} ELSE {})
    \cup (IF Key(userId, noteId) \in DOMAIN d.notes THEN {"file"} ELSE {})
    \cup (IF Key(userId, noteId) \in d.media THEN {"media"} ELSE {})

DeleteFile(userId, noteId) ==
    /\ disk' = DeleteEffect(disk, userId, noteId)
    /\ resp' = [Response("delete", userId, noteId, DeleteStatus(disk, userId, noteId),
                         Undef, Undef, NoData)
                   EXCEPT !.existed = Artefacts(disk, userId, noteId)]
    /\ UNCHANGED <<clock, shareSeq, procs>>

----------------------------------------------------------------------------
(* POST /api/notes/:noteId/upload *)

\* multer's destination: fs.mkdir(mediaDir, { recursive: true }) creates the
\* note's media directory and, with it, the user's directory and notes directory
MakeMediaDir(d, userId, noteId) ==
    [d EXCEPT !.userDirs = @ \cup {GetUserDir(userId)},
              !.notesDirs = @ \cup {GetUserDir(userId)},
              !.media = @ \cup {Key(userId, noteId)}]

\* an image is stored for the note, whether or not the note is in the index
UploadMedia(userId, noteId) ==
    /\ disk' = MakeMediaDir(disk, userId, noteId)
    /\ resp' = Response("upload", userId, noteId, 200, Undef, Undef, NoData)
    /\ UNCHANGED <<clock, shareSeq, procs>>

----------------------------------------------------------------------------
(* GET /api/file/:noteId and GET /api/files *)

\* a get handler that adopts a legacy note into the index when it reads one
GetFileAdopting(userId, noteId) ==
    /\ LET result == ReadNoteData(disk, userId, noteId)
       IN  /\ resp' = Response("get", userId, noteId, IF result.found THEN 200 ELSE 500,
                               Undef, Undef, result.data)
           /\ disk' = IF result.found /\ noteId \notin DOMAIN LoadUserDatabase(disk, userId)
                       THEN WriteNoteData(disk, userId, noteId, result.data)
                       ELSE disk
    /\ UNCHANGED <<clock, shareSeq, procs>>

\* 200 with the note, 500 when readNoteData throws
GetFile(userId, noteId) ==
    /\ LET result == ReadNoteData(disk, userId, noteId)
       IN  resp' = Response("get", userId, noteId, IF result.found THEN 200 ELSE 500,
                            Undef, Undef, result.data)
    /\ UNCHANGED <<disk, clock, shareSeq, procs>>

\* ensureUserDir, then the records of getNotesForUser
ListFiles(userId) ==
    /\ disk' = EnsureUserDir(disk, userId)
    /\ resp' = [Response("list", userId, NoNote, 200, Undef, Undef, NoData)
                   EXCEPT !.list = GetNotesForUser(EnsureUserDir(disk, userId), userId)]
    /\ UNCHANGED <<clock, shareSeq, procs>>

----------------------------------------------------------------------------
(* GET /api/shared/:shareId *)

SharedResult(status, error, data) == [status |-> status, error |-> error, data |-> data]

\* a shared-note handler that checks a password only when one is sent
AccessSharedUnchecked(d, token, password) ==
    IF token \notin DOMAIN d.shared
    THEN SharedResult(404, "Shared file not found", NoData)
    ELSE LET fileData == ReadNoteData(d, d.shared[token].userId, d.shared[token].noteId)
         IN  IF ~fileData.found
             THEN SharedResult(404, "Shared file not found", NoData)
             ELSE IF Truthy(fileData.data.isPasswordProtected)
                     /\ fileData.data.password # NoHash
                     /\ Truthy(password)
                     /\ ~Compare(password, fileData.data.password)
             THEN SharedResult(401, "Invalid password", NoData)
             ELSE SharedResult(200, "", fileData.data)

\* 404 when the share file or the note cannot be read; 401 with the two password
\* errors; else the note's title, markdown and tags
AccessShared(d, token, password) ==
    IF token \notin DOMAIN d.shared
    THEN SharedResult(404, "Shared file not found", NoData)
    ELSE LET fileData == ReadNoteData(d, d.shared[token].userId, d.shared[token].noteId)
         IN  IF ~fileData.found
             THEN SharedResult(404, "Shared file not found", NoData)
             ELSE IF Truthy(fileData.data.isPasswordProtected)
                     /\ fileData.data.password # NoHash
                     /\ ~Truthy(password)
             THEN SharedResult(401, "Password required", NoData)
             ELSE IF Truthy(fileData.data.isPasswordProtected)
                     /\ fileData.data.password # NoHash
                     /\ ~Compare(password, fileData.data.password)
             THEN SharedResult(401, "Invalid password", NoData)
             ELSE SharedResult(200, "", fileData.data)

----------------------------------------------------------------------------
(* POST /api/admin/users *)

Account(isAdmin) == [isAdmin |-> isAdmin]

\* saveUsers, then ensureUserDir; an existing username is answered 400
CreateUser(username, isAdmin) ==
    /\ IF username \in DOMAIN disk.users
       THEN /\ resp' = Response("createUser", username, NoNote, 400, Undef, Undef, NoData)
            /\ UNCHANGED disk
       ELSE /\ disk' = EnsureUserDir(
                           [disk EXCEPT !.users = Put(@, username, Account(isAdmin))],
                           username)
            /\ resp' = Response("createUser", username, NoNote, 200, Undef, Undef, NoData)
    /\ UNCHANGED <<clock, shareSeq, procs>>

----------------------------------------------------------------------------
(* POST /api/admin/import *)

\* accounts of the backup that are absent locally are added, each with its directory
RECURSIVE ImportUsers(_, _, _)
ImportUsers(d, users, i) ==
    IF i > Len(users) THEN d
    ELSE LET username == users[i].username
             d1 == IF username \in DOMAIN d.users THEN d
                   ELSE EnsureUserDir(
                            [d EXCEPT !.users = Put(@, username, users[i].account)],
                            username)
         IN  ImportUsers(d1, users, i + 1)

\* an index merge without the includes test
RECURSIVE ImportUsersIndexAppending(_, _, _)
ImportUsersIndexAppending(d, usersIndex, i) ==
    IF usersIndex = UndefList \/ ~d.usersIndexExists \/ i > Len(usersIndex) THEN d
    ELSE ImportUsersIndexAppending(
             [d EXCEPT !.usersIndex = Append(@, usersIndex[i])], usersIndex, i + 1)

\* the backup's users-index entries that are not listed are appended; an index
\* file that cannot be read is left alone
RECURSIVE ImportUsersIndex(_, _, _)
ImportUsersIndex(d, usersIndex, i) ==
    IF usersIndex = UndefList \/ ~d.usersIndexExists \/ i > Len(usersIndex) THEN d
    ELSE ImportUsersIndex(
             IF \E j \in 1..Len(d.usersIndex) : d.usersIndex[j] = usersIndex[i] THEN d
             ELSE [d EXCEPT !.usersIndex = Append(@, usersIndex[i])],
             usersIndex, i + 1)

\* index entries of the backup that are absent from the local index are added
MergeDatabase(existingDb, database) ==
    [n \in DOMAIN existingDb \cup DOMAIN database |->
        IF n \in DOMAIN existingDb THEN existingDb[n] ELSE database[n]]

\* a merge that writes every markdown file of the backup
MergeNotesOverwriting(d, username, notes) ==
    [d EXCEPT !.notes =
        [k \in DOMAIN @ \cup {Key(username, n) : n \in DOMAIN notes} |->
            IF k[1] = GetUserDir(username) /\ k[2] \in DOMAIN notes THEN notes[k[2]]
            ELSE @[k]]]

\* markdown files of the backup are written where no file exists
MergeNotes(d, username, notes) ==
    [d EXCEPT !.notes =
        [k \in DOMAIN @ \cup {Key(username, n) : n \in DOMAIN notes} |->
            IF k \in DOMAIN @ THEN @[k] ELSE notes[k[2]]]]

ImportUserData(d, userData) ==
    LET username == userData.username
        d1 == EnsureUserDir(d, username)
        d2 == IF userData.hasDatabase
              THEN SaveUserDatabase(d1, username,
                       MergeDatabase(LoadUserDatabase(d1, username), userData.database))
              ELSE d1
    IN  IF userData.hasNotes THEN MergeNotes(d2, username, userData.notes) ELSE d2

RECURSIVE ImportAllUserData(_, _, _)
ImportAllUserData(d, userData, i) ==
    IF i > Len(userData) THEN d
    ELSE ImportAllUserData(ImportUserData(d, userData[i]), userData, i + 1)

ImportEffect(d, backup) ==
    ImportAllUserData(
        ImportUsersIndex(ImportUsers(d, backup.users, 1), backup.usersIndex, 1),
        backup.userData, 1)

\* importedUsers: the accounts of the backup that were absent locally
ImportedUsers(d, backup) ==
    Cardinality({i \in 1..Len(backup.users) :
                    backup.users[i].username \notin DOMAIN d.users})

\* importedNotes: the index entries of the backup that were absent locally
ImportedNotes(d, backup) ==
    Cardinality(UNION {
        {<<i, n>> : n \in {m \in DOMAIN backup.userData[i].database :
                              /\ backup.userData[i].hasDatabase
                              /\ m \notin DOMAIN LoadUserDatabase(d,
                                                 backup.userData[i].username)}} :
        i \in 1..Len(backup.userData)})

ImportBackup(backup) ==
    /\ disk' = ImportEffect(disk, backup)
    /\ resp' = [Response("import", NoUser, NoNote, 200, Undef, Undef, NoData)
                   EXCEPT !.importedUsers = ImportedUsers(disk, backup),
                          !.importedNotes = ImportedNotes(disk, backup),
                          !.backup = backup.name]
    /\ UNCHANGED <<clock, shareSeq, procs>>

----------------------------------------------------------------------------
(* GET /api/admin/export *)

\* an export that looks for database.json where it is not
ExportedDatabaseMissing(d, username) == EmptyDatabase

\* fs.readFile(dbPath) and JSON.parse, { notes: {} } when that fails
ExportedDatabase(d, username) ==
    IF GetUserDir(username) \in DOMAIN d.db /\ GetUserDir(username) \notin d.torn
    THEN d.db[GetUserDir(username)]
    ELSE EmptyDatabase

\* fs.readdir gives the names in an order the file system chooses; here the
\* alphabetical one
RECURSIVE Readdir(_)
Readdir(names) ==
    IF names = {} THEN <<>>
    ELSE LET Rank(n) == CASE n = "admin" -> 1 [] n = "bob" -> 2 [] n = "n1" -> 3
                             [] n = "old1" -> 4 [] OTHER -> 5
             first == CHOOSE n \in names : \A m \in names : Rank(n) <= Rank(m)
         IN  <<first>> \o Readdir(names \ {first})

\* the <id>.md files of the user's notes directory, read in readdir order; the
\* first fs.readFile that throws ends the loop, and what was read before it stays
ExportedNotes(d, username) ==
    LET files == Readdir({k[2] : k \in {x \in DOMAIN d.notes : x[1] = GetUserDir(username)}})
        read == {i \in 1..Len(files) :
                    \A j \in 1..i : CanReadNoteFile(d, username, files[j])}
    IN  [n \in {files[i] : i \in read} |-> d.notes[Key(username, n)]]

\* users.json, users-index.json ({ users: [] } when it cannot be read), and the
\* database and markdown files of every account
ExportDocument(d) ==
    [users |-> d.users,
     usersIndex |-> IF d.usersIndexExists THEN d.usersIndex ELSE <<>>,
     userData |-> [u \in DOMAIN d.users |->
                      [database |-> ExportedDatabase(d, u),
                       notes |-> ExportedNotes(d, u)]]]

ExportBackup ==
    /\ resp' = [Response("export", NoUser, NoNote, 200, Undef, Undef, NoData)
                   EXCEPT !.document = ExportDocument(disk)]
    /\ UNCHANGED <<disk, clock, shareSeq, procs>>

----------------------------------------------------------------------------
(* DELETE /api/admin/users/:username *)

\* the account is removed from users.json; the user's directory and the users
\* index keep it; admin cannot be deleted
DeleteUser(username) ==
    /\ IF username = "admin"
       THEN /\ resp' = Response("deleteUser", username, NoNote, 400, Undef, Undef, NoData)
            /\ UNCHANGED disk
       ELSE IF username \notin DOMAIN disk.users
       THEN /\ resp' = Response("deleteUser", username, NoNote, 404, Undef, Undef, NoData)
            /\ UNCHANGED disk
       ELSE /\ disk' = [disk EXCEPT !.users = Drop(@, username)]
            /\ resp' = Response("deleteUser", username, NoNote, 200, Undef, Undef, NoData)
    /\ UNCHANGED <<clock, shareSeq, procs>>

----------------------------------------------------------------------------
(* Server start on an empty installation *)

\* one of the demo notes initializeDemoNotes writes for admin
DemoNote ==
    [title |-> "Welcome to Whiteboard", markdown |-> "# Welcome to Whiteboard",
     tags |-> <<"welcome", "info">>, groups |-> <<"Getting Started">>,
     isPasswordProtected |-> JsFalse, password |-> NoHash, shareId |-> Undef,
     createdAt |-> 0, updatedAt |-> 0]

\* initializeUsers, ensureDataDir, ensureSharedDir, then initializeDemoNotes
StartedDisk ==
    [users |-> [u \in {"admin"} |-> Account(TRUE)],
     systemDir |-> TRUE,
     usersIndexExists |-> TRUE,
     usersIndex |-> <<"admin">>,
     userDirs |-> {"admin"},
     notesDirs |-> {"admin"},
     db |-> [u \in {"admin"} |-> [n \in DemoNoteIds |-> MetadataOf(DemoNote)]],
     torn |-> {},
     notes |-> [k \in {Key("admin", n) : n \in DemoNoteIds} |-> DemoNote.markdown],
     unreadable |-> {},
     media |-> {},
     legacyMedia |-> {},
     legacyMeta |-> [k \in {} |-> MetadataOf(NoData)],
     legacyContent |-> [k \in {} |-> ""],
     legacyNote |-> [k \in {} |-> NoData],
     shared |-> [t \in {} |-> [userId |-> NoUser, noteId |-> NoNote, createdAt |-> NoTime]]]

\* the requests in flight
ProcIds == {1, 2}
NoBody ==
    [title |-> Undef, markdown |-> Undef, tags |-> UndefList, groups |-> UndefList,
     password |-> Undef, isPasswordProtected |-> Undef]
\* pc: the await the request is suspended at; body, now: the request and the time
\* it read; database: the index it loaded; result: what its readNoteData returned;
\* data: the note it hands to writeNoteData.  Of an import: backup, the document;
\* step, the file operation it is about to do; users, its existingUsers; adding,
\* fresh, exists: the outcome of its last !existingUsers[username], of its last
\* fs.access(userDir) and of its last fs.access(notePath).  start and stopped
\* are kept for the claims: the disk when the import was first sent, and
\* whether the server has stopped since
\* no entry of loginAttempts for a client's address
NoRecord == [count |-> 0, timestamp |-> NoTime]

IdleProc ==
    [pc |-> "idle", op |-> "none", userId |-> NoUser, noteId |-> NoNote,
     body |-> NoBody, now |-> NoTime, data |-> NoData, database |-> EmptyDatabase,
     result |-> NotFound, backup |-> "none", step |-> 0, users |-> <<>>,
     adding |-> FALSE, fresh |-> FALSE, exists |-> FALSE, start |-> <<>>,
     stopped |-> FALSE, index |-> <<>>, indexRead |-> FALSE, isAdmin |-> FALSE,
     attempts |-> NoRecord]

Init ==
    /\ disk = StartedDisk
    /\ clock = 0
    /\ shareSeq = 0
    /\ resp = NoResponse
    /\ procs = [p \in ProcIds |-> IdleProc]

----------------------------------------------------------------------------
(* The requests the clients send *)

SaveBodies ==
    [title : {"T1"}, markdown : {"C1", Undef}, tags : {<<"t1">>},
     groups : {UndefList}, password : {Undef, "pw1"},
     isPasswordProtected : {Undef, JsTrue}]

MetadataBodies ==
    [tags : {UndefList}, groups : {UndefList}, password : {Undef, "pw1"},
     isPasswordProtected : {Undef, JsTrue, JsFalse}]

\* the passwords a visitor of a shared link may send
Passwords == {Undef, "", "pw1", "pw2"}

\* a backup taken earlier: bob's account, and a note of admin that was shared then
BackupNote ==
    [title |-> "From backup", tags |-> <<>>, groups |-> <<>>,
     isPasswordProtected |-> JsFalse, password |-> NoHash, shareId |-> OldToken,
     createdAt |-> 0, updatedAt |-> 0]

Backup ==
    [name |-> "full",
     users |-> <<[username |-> "admin", account |-> Account(TRUE)],
                 [username |-> "bob", account |-> Account(FALSE)]>>,
     usersIndex |-> <<"admin", "bob">>,
     userData |-> <<[username |-> "admin", hasDatabase |-> TRUE,
                     database |-> [n \in {"n1"} |-> BackupNote],
                     hasNotes |-> TRUE,
                     notes |-> [n \in {"n1"} |-> "backup text"]],
                    [username |-> "bob", hasDatabase |-> TRUE,
                     database |-> EmptyDatabase,
                     hasNotes |-> TRUE,
                     notes |-> [n \in {} |-> ""]]>>]

BackupDocs == {Backup}

\* a backup whose userData carries admin's index and no markdown files
IndexOnlyBackup ==
    [name |-> "indexOnly",
     users |-> <<[username |-> "admin", account |-> Account(TRUE)]>>,
     usersIndex |-> <<"admin">>,
     userData |-> <<[username |-> "admin", hasDatabase |-> TRUE,
                     database |-> [n \in {"n1"} |-> BackupNote],
                     hasNotes |-> FALSE,
                     notes |-> [n \in {} |-> ""]]>>]

----------------------------------------------------------------------------
(* Requests handled one at a time *)

\* the notes the requests name: admin's demo note, and one more note per user
Targets == {<<u, n>> \in SessionUsers \X NoteIds : u = "admin" \/ n \notin DemoNoteIds}

Next ==
    \/ \E t \in Targets, body \in SaveBodies : SaveFile(t[1], t[2], body)
    \/ \E t \in Targets : NewFile(t[1], t[2], Undef)
    \/ \E t \in Targets, body \in MetadataBodies : UpdateMetadata(t[1], t[2], body)
    \/ \E t \in Targets : GenerateShare(t[1], t[2])
    \/ \E t \in Targets : RemoveShare(t[1], t[2])
    \/ \E t \in Targets : DeleteFile(t[1], t[2])
    \/ \E u \in Users : CreateUser(u, FALSE)
    \/ \E backup \in BackupDocs : ImportBackup(backup)

Spec == Init /\ [][Next]_vars

----------------------------------------------------------------------------
(* Requests in flight: a handler runs from one await to the next, and other     *)
(* requests run in between                                                      *)

\* POST /api/file/:noteId up to its first readNoteData
BeginSave(p, userId, noteId, body) ==
    /\ procs[p].pc = "idle"
    /\ clock < MaxClock
    /\ disk' = EnsureUserDir(disk, userId)
    /\ procs' = [procs EXCEPT ![p] =
           [IdleProc EXCEPT !.pc = "readLoad", !.op = "save", !.userId = userId,
                            !.noteId = noteId, !.body = body, !.now = clock + 1]]
    /\ clock' = clock + 1
    /\ UNCHANGED <<shareSeq, resp>>

\* GET /api/file/:noteId up to its readNoteData
BeginGet(p, userId, noteId) ==
    /\ procs[p].pc = "idle"
    /\ procs' = [procs EXCEPT ![p] =
           [IdleProc EXCEPT !.pc = "readLoad", !.op = "get", !.userId = userId,
                            !.noteId = noteId]]
    /\ UNCHANGED <<disk, clock, shareSeq, resp>>

\* what follows readNoteData: the save builds its data, the get responds
AfterRead(proc, result) ==
    IF proc.op = "save"
    THEN [proc EXCEPT !.pc = "writeLoad", !.result = result,
                      !.data = SaveData(result, proc.body, proc.now)]
    ELSE [proc EXCEPT !.pc = "done", !.result = result]

\* readNoteData: await loadUserDatabase; a note absent from the index is read
\* from its legacy directory
ReadLoad(p) ==
    /\ procs[p].pc = "readLoad"
    /\ LET proc == procs[p]
           database == LoadUserDatabase(disk, proc.userId)
       IN  procs' = [procs EXCEPT ![p] =
               IF proc.noteId \in DOMAIN database
               THEN [proc EXCEPT !.pc = "readFile", !.database = database]
               ELSE AfterRead(proc, ReadLegacyNoteData(disk, proc.userId, proc.noteId))]
    /\ UNCHANGED <<disk, clock, shareSeq, resp>>

\* readNoteData: await fs.readFile(notePath)
ReadFile(p) ==
    /\ procs[p].pc = "readFile"
    /\ LET proc == procs[p]
       IN  procs' = [procs EXCEPT ![p] =
               AfterRead(proc,
                   Found(WithMarkdown(proc.database[proc.noteId],
                                      ReadNoteFile(disk, proc.userId, proc.noteId))))]
    /\ UNCHANGED <<disk, clock, shareSeq, resp>>

\* writeNoteData: await loadUserDatabase
WriteLoad(p) ==
    /\ procs[p].pc = "writeLoad"
    /\ procs' = [procs EXCEPT ![p] =
           [@ EXCEPT !.pc = "saveWrite",
                     !.database = LoadUserDatabase(disk, procs[p].userId)]]
    /\ UNCHANGED <<disk, clock, shareSeq, resp>>

\* saveUserDatabase: the loaded index, with this note's entry, is written
SaveWrite(p) ==
    /\ procs[p].pc \in {"saveWrite", "saveWriting"}
    /\ LET proc == procs[p]
       IN  disk' = SaveUserDatabase(disk, proc.userId,
                       PutNote(proc.database, proc.noteId, MetadataOf(proc.data)))
    /\ procs' = [procs EXCEPT ![p] = [@ EXCEPT !.pc = "noteWrite"]]
    /\ UNCHANGED <<clock, shareSeq, resp>>

\* the markdown is written and the save responds
NoteWrite(p) ==
    /\ procs[p].pc = "noteWrite"
    /\ disk' = WriteNoteFile(disk, procs[p].userId, procs[p].noteId,
                             procs[p].data.markdown)
    /\ procs' = [procs EXCEPT ![p] = [@ EXCEPT !.pc = "done"]]
    /\ UNCHANGED <<clock, shareSeq, resp>>

ConcBodies ==
    [title : {"T1", "T2"}, markdown : {"C1", "C2"}, tags : {UndefList},
     groups : {UndefList}, password : {Undef}, isPasswordProtected : {Undef}]

ConcTargets == {"admin"} \X NoteIds

NextConc ==
    \/ \E p \in ProcIds, t \in ConcTargets, body \in ConcBodies :
           BeginSave(p, t[1], t[2], body)
    \/ \E p \in ProcIds, t \in ConcTargets : BeginGet(p, t[1], t[2])
    \/ \E p \in ProcIds : ReadLoad(p)
    \/ \E p \in ProcIds : ReadFile(p)
    \/ \E p \in ProcIds : WriteLoad(p)
    \/ \E p \in ProcIds : SaveWrite(p)
    \/ \E p \in ProcIds : NoteWrite(p)

SpecConc == Init /\ [][NextConc]_vars

----------------------------------------------------------------------------
(* The note store on an installation that earlier versions have written to *)

\* a note written by an earlier version, never saved since
LegacyNoteId == "old1"

\* metadata.json as the split storage test writes it: no groups, no share
LegacyMetadata ==
    [title |-> "Test Note", tags |-> <<"test", "demo">>, groups |-> UndefList,
     isPasswordProtected |-> JsFalse, password |-> NoHash, shareId |-> Undef,
     createdAt |-> 0, updatedAt |-> 0]

\* note.json documents: one with its markdown, one saved without any
LegacyDocuments ==
    {WithMarkdown([LegacyMetadata EXCEPT !.title = "Old Note"], "# Old Note"),
     WithMarkdown([LegacyMetadata EXCEPT !.title = "Old Note"], Undef)}

\* what data/admin/old1/ holds: nothing, metadata.json with or without content.md,
\* note.json, or both shapes
LegacyDirs ==
    LET k == Key("admin", LegacyNoteId)
        none == [legacyMeta |-> StartedDisk.legacyMeta,
                 legacyContent |-> StartedDisk.legacyContent,
                 legacyNote |-> StartedDisk.legacyNote]
        split == [none EXCEPT !.legacyMeta = Put(@, k, LegacyMetadata)]
        withContent == [split EXCEPT !.legacyContent = Put(@, k, "# Test Note")]
    IN  {none, split, withContent}
        \cup {[none EXCEPT !.legacyNote = Put(@, k, doc)] : doc \in LegacyDocuments}
        \cup {[withContent EXCEPT !.legacyNote = Put(@, k, doc)] : doc \in LegacyDocuments}

\* the installations the server starts on: the legacy directory in one of its
\* states, and possibly a markdown file whose index entry a stopped delete had
\* already removed
Installations ==
    {[StartedDisk EXCEPT !.legacyMeta = dir.legacyMeta,
                         !.legacyContent = dir.legacyContent,
                         !.legacyNote = dir.legacyNote,
                         !.notes = IF orphan
                                   THEN Put(@, Key("admin", LegacyNoteId), "left behind")
                                   ELSE @] :
        dir \in LegacyDirs, orphan \in BOOLEAN}

InitStore ==
    /\ disk \in Installations
    /\ clock = 0
    /\ shareSeq = 0
    /\ resp = NoResponse
    /\ procs = [p \in ProcIds |-> IdleProc]

StoreBodies ==
    [title : {"T1"}, markdown : {"C1"}, tags : {<<"t1">>},
     groups : {UndefList}, password : {Undef}, isPasswordProtected : {Undef}]

StoreTargets == {"admin"} \X (NoteIds \cup {LegacyNoteId})

NextStore ==
    \/ \E t \in StoreTargets, body \in StoreBodies : SaveFile(t[1], t[2], body)
    \/ \E t \in StoreTargets : DeleteFile(t[1], t[2])
    \/ \E t \in StoreTargets : UploadMedia(t[1], t[2])
    \/ \E t \in StoreTargets : GetFile(t[1], t[2])
    \/ \E t \in StoreTargets : ListFiles(t[1])

SpecStore == InitStore /\ [][NextStore]_vars

----------------------------------------------------------------------------
(* Backups: export and import, requests handled one at a time *)

BackupBodies ==
    [title : {"T1"}, markdown : {"C1"}, tags : {<<"t1">>},
     groups : {UndefList}, password : {Undef}, isPasswordProtected : {Undef}]

NextBackup ==
    \/ \E t \in Targets, body \in BackupBodies : SaveFile(t[1], t[2], body)
    \/ \E t \in Targets : DeleteFile(t[1], t[2])
    \/ \E u \in Users : CreateUser(u, FALSE)
    \/ \E u \in Users : DeleteUser(u)
    \/ \E backup \in {Backup, IndexOnlyBackup} : ImportBackup(backup)
    \/ ExportBackup

SpecBackup == Init /\ [][NextBackup]_vars

----------------------------------------------------------------------------
(* POST /api/admin/import, one file operation at a time *)

\* a backup without the users index
NoIndexBackup == [Backup EXCEPT !.name = "noIndex", !.usersIndex = UndefList]

BackupNamed(name) ==
    CHOOSE backup \in {Backup, IndexOnlyBackup, NoIndexBackup} : backup.name = name

\* one file operation of the import: kind, the user and the note it is about, which
\* entry of the backup it comes from, and whether it belongs to the
\* ensureUserDir of the accounts loop, which runs for new accounts only
Op(kind, userId, noteId, i, newOnly) ==
    [kind |-> kind, userId |-> userId, noteId |-> noteId, i |-> i, newOnly |-> newOnly]

\* ensureUserDir: fs.access(userDir) and the operations of its catch block (the
\* last two are the fs.readFile and fs.writeFile of addUserToSystemIndex), then
\* the notes directory and database.json are created when missing
EnsureOps(userId, newOnly) ==
    <<Op("mkdirUser", userId, NoNote, 0, newOnly),
      Op("mkdirNotes", userId, NoNote, 0, newOnly),
      Op("initDb", userId, NoNote, 0, newOnly),
      Op("readIndex", userId, NoNote, 0, newOnly),
      Op("addIndex", userId, NoNote, 0, newOnly),
      Op("ensureNotes", userId, NoNote, 0, newOnly),
      Op("ensureDb", userId, NoNote, 0, newOnly)>>

\* for (const [username, userData] of Object.entries(backup.users))
RECURSIVE UsersOps(_, _)
UsersOps(users, i) ==
    IF i > Len(users) THEN <<>>
    ELSE <<Op("addUser", users[i].username, NoNote, i, FALSE)>>
         \o EnsureOps(users[i].username, TRUE)
         \o UsersOps(users, i + 1)

\* for (const [noteId, markdown] of Object.entries(userData.notes))
RECURSIVE NotesOps(_, _, _)
NotesOps(userId, i, noteIds) ==
    IF noteIds = {} THEN <<>>
    ELSE LET n == CHOOSE x \in noteIds : TRUE
         IN  <<Op("access", userId, n, i, FALSE), Op("writeNote", userId, n, i, FALSE)>>
             \o NotesOps(userId, i, noteIds \ {n})

\* for (const [username, userData] of Object.entries(backup.userData))
RECURSIVE UserDataOps(_, _)
UserDataOps(userData, i) ==
    IF i > Len(userData) THEN <<>>
    ELSE LET u == userData[i].username
         IN  EnsureOps(u, FALSE)
             \o (IF userData[i].hasDatabase
                 THEN <<Op("loadDb", u, NoNote, i, FALSE), Op("saveDb", u, NoNote, i, FALSE)>>
                 ELSE <<>>)
             \o (IF userData[i].hasNotes
                 THEN NotesOps(u, i, DOMAIN userData[i].notes)
                 ELSE <<>>)
             \o UserDataOps(userData, i + 1)

\* the file operations of one import, in the order the handler does them
ImportOps(backup) ==
    <<Op("loadUsers", NoUser, NoNote, 0, FALSE)>>
    \o UsersOps(backup.users, 1)
    \o <<Op("saveUsers", NoUser, NoNote, 0, FALSE)>>
    \o (IF backup.usersIndex # UndefList
        THEN <<Op("readSystemIndex", NoUser, NoNote, 0, FALSE),
               Op("mergeIndex", NoUser, NoNote, 0, FALSE)>>
        ELSE <<>>)
    \o UserDataOps(backup.userData, 1)

\* an operation is skipped when its branch is not taken: ensureUserDir of the
\* accounts loop for a known account, the catch block of ensureUserDir when the
\* directory exists, fs.writeFile(notePath) when the file exists
Skipped(op, proc) ==
    \/ op.newOnly /\ ~proc.adding
    \/ op.kind \in {"mkdirNotes", "initDb", "readIndex", "addIndex"} /\ ~proc.fresh
    \/ op.kind = "writeNote" /\ proc.exists

\* what the operation leaves on disk
OpDisk(op, d, proc, backup) ==
    IF Skipped(op, proc) THEN d
    ELSE CASE op.kind = "mkdirUser" ->
                  [d EXCEPT !.userDirs = @ \cup {GetUserDir(op.userId)}]
           [] op.kind = "mkdirNotes" ->
                  [d EXCEPT !.notesDirs = @ \cup {GetUserDir(op.userId)}]
           [] op.kind = "initDb" ->
                  [d EXCEPT !.db = Put(@, GetUserDir(op.userId), EmptyDatabase),
                            !.torn = @ \ {GetUserDir(op.userId)}]
           [] op.kind = "addIndex" ->
                  IF proc.indexRead
                  THEN [d EXCEPT !.usersIndex =
                           AddUserToSystemIndex(
                               [d EXCEPT !.usersIndex = proc.index], op.userId).usersIndex]
                  ELSE d
           [] op.kind = "ensureNotes" ->
                  [d EXCEPT !.notesDirs = @ \cup {GetUserDir(op.userId)}]
           [] op.kind = "ensureDb" ->
                  IF GetUserDir(op.userId) \in DOMAIN d.db THEN d
                  ELSE [d EXCEPT !.db = Put(@, GetUserDir(op.userId), EmptyDatabase)]
           [] op.kind = "saveUsers" -> [d EXCEPT !.users = proc.users]
           [] op.kind = "mergeIndex" ->
                  IF proc.indexRead
                  THEN [d EXCEPT !.usersIndex =
                           ImportUsersIndex([d EXCEPT !.usersIndex = proc.index],
                                            backup.usersIndex, 1).usersIndex]
                  ELSE d
           [] op.kind = "saveDb" ->
                  SaveUserDatabase(d, op.userId,
                      MergeDatabase(proc.database, backup.userData[op.i].database))
           [] op.kind = "writeNote" ->
                  [d EXCEPT !.notes = Put(@, Key(op.userId, op.noteId),
                                          backup.userData[op.i].notes[op.noteId])]
           [] OTHER -> d

\* what the operation leaves in the handler's variables
OpProc(op, d, proc, backup) ==
    IF Skipped(op, proc) THEN proc
    ELSE CASE op.kind = "loadUsers" -> [proc EXCEPT !.users = d.users]
           [] op.kind = "addUser" ->
                  IF op.userId \in DOMAIN proc.users
                  THEN [proc EXCEPT !.adding = FALSE]
                  ELSE [proc EXCEPT !.adding = TRUE,
                                    !.users = Put(@, op.userId, backup.users[op.i].account)]
           [] op.kind = "mkdirUser" -> [proc EXCEPT !.fresh = GetUserDir(op.userId) \notin d.userDirs]
           [] op.kind \in {"readIndex", "readSystemIndex"} ->
                  [proc EXCEPT !.index = d.usersIndex, !.indexRead = d.usersIndexExists]
           [] op.kind = "loadDb" ->
                  [proc EXCEPT !.database = LoadUserDatabase(d, op.userId)]
           [] op.kind = "access" ->
                  [proc EXCEPT !.exists = Key(op.userId, op.noteId) \in DOMAIN d.notes]
           [] OTHER -> proc

\* the upload is parsed; after a stop, the admin sends the same document again
BeginImport(p, backup) ==
    /\ procs[p].pc = "idle"
    /\ procs[p].stopped => procs[p].backup = backup.name
    /\ procs' = [procs EXCEPT ![p] =
           [IdleProc EXCEPT !.pc = "import", !.op = "import", !.backup = backup.name,
                            !.step = 1, !.stopped = procs[p].stopped,
                            !.start = IF procs[p].stopped THEN procs[p].start ELSE disk]]
    /\ UNCHANGED <<disk, clock, shareSeq, resp>>

\* the next file operation of the import; after the last one it responds
ImportStep(p) ==
    /\ procs[p].pc = "import"
    /\ LET proc == procs[p]
           backup == BackupNamed(proc.backup)
           ops == ImportOps(backup)
           op == ops[proc.step]
           after == OpProc(op, disk, proc, backup)
       IN  /\ disk' = OpDisk(op, disk, proc, backup)
           /\ procs' = [procs EXCEPT ![p] =
                  IF proc.step = Len(ops) THEN [after EXCEPT !.pc = "done"]
                  ELSE [after EXCEPT !.step = proc.step + 1]]
    /\ UNCHANGED <<clock, shareSeq, resp>>

\* the server stops: the requests in flight are gone, the disk stays
Stop ==
    /\ \E p \in ProcIds : procs[p].pc \notin {"idle", "done"}
    /\ procs' = [p \in ProcIds |->
           IF procs[p].pc \in {"idle", "done"} THEN procs[p]
           ELSE [IdleProc EXCEPT !.backup = procs[p].backup, !.start = procs[p].start,
                                 !.stopped = TRUE]]
    /\ UNCHANGED <<disk, clock, shareSeq, resp>>

\* the installations an import runs on: a fresh one, one where admin has saved
\* note n1, one where bob has an account
ImportInstallations ==
    {StartedDisk,
     WriteNoteData(StartedDisk, "admin", "n1",
         NewData([title |-> "Mine", markdown |-> "my text", tags |-> <<>>,
                  groups |-> <<>>, isPasswordProtected |-> JsFalse], 0)),
     EnsureUserDir([StartedDisk EXCEPT !.users = Put(@, "bob", Account(FALSE))], "bob")}

InitStops ==
    /\ disk \in ImportInstallations
    /\ clock = 0
    /\ shareSeq = 0
    /\ resp = NoResponse
    /\ procs = [p \in ProcIds |-> IdleProc]

\* one import at a time, and the server may stop after any file operation
NextStops ==
    \/ \E backup \in {Backup, IndexOnlyBackup, NoIndexBackup} : BeginImport(1, backup)
    \/ ImportStep(1)
    \/ Stop

SpecStops == InitStops /\ [][NextStops]_vars

\* an import and a save of admin in flight together
NextImportConc ==
    \/ BeginImport(1, Backup)
    \/ ImportStep(1)
    \/ \E t \in ConcTargets, body \in ConcBodies : BeginSave(2, t[1], t[2], body)
    \/ ReadLoad(2)
    \/ ReadFile(2)
    \/ WriteLoad(2)
    \/ SaveWrite(2)
    \/ NoteWrite(2)

SpecImportConc == Init /\ [][NextImportConc]_vars

----------------------------------------------------------------------------
(* GET /api/search *)

\* the characters of the strings the search is tried on
Spell(s) ==
    CASE s = "" -> <<>>
      [] s = "Ab" -> <<"A", "b">>
      [] s = "ab" -> <<"a", "b">>
      [] s = "B" -> <<"B">>
      [] s = "Cd" -> <<"C", "d">>
      [] s = "cd" -> <<"c", "d">>
      [] s = "Ef" -> <<"E", "f">>
      [] s = "EF" -> <<"E", "F">>
      [] s = "Gh" -> <<"G", "h">>
      [] s = "gh" -> <<"g", "h">>
      [] s = "zz" -> <<"z", "z">>

\* String.prototype.toLowerCase, character by character
LowerChar(c) ==
    CASE c = "A" -> "a" [] c = "B" -> "b" [] c = "C" -> "c" [] c = "D" -> "d"
      [] c = "E" -> "e" [] c = "F" -> "f" [] c = "G" -> "g" [] c = "H" -> "h"
      [] OTHER -> c
ToLowerCase(chars) == [i \in 1..Len(chars) |-> LowerChar(chars[i])]

\* String.prototype.includes: needle occurs in hay at some offset
Includes(hay, needle) ==
    \E i \in 0..(Len(hay) - Len(needle)) :
        \A j \in 1..Len(needle) : hay[i + j] = needle[j]

\* tag.toLowerCase().includes(query) for some tag; undefined tags match nothing
TagsMatch(tags, query) ==
    /\ TruthyList(tags)
    /\ \E i \in 1..Len(tags) : Includes(ToLowerCase(Spell(tags[i])), query)

\* the test of searchNotes on one index entry and its markdown ('' when the file
\* is missing); the groups are not looked at
SearchMatches(metadata, markdown, query) ==
    \/ Includes(ToLowerCase(Spell(metadata.title)), query)
    \/ markdown # "" /\ Includes(ToLowerCase(Spell(markdown)), query)
    \/ TagsMatch(metadata.tags, query)

\* one result record; the texts here are shorter than the 100 characters of the
\* preview
SearchResult(d, userId, noteId) ==
    LET metadata == LoadUserDatabase(d, userId)[noteId]
    IN  [name |-> metadata.title, path |-> noteId,
         preview |-> ReadNoteFile(d, userId, noteId),
         tags |-> OrElseList(metadata.tags, <<>>)]

\* an entry without a title throws inside the loop and is skipped
SearchNotes(d, userId, query) ==
    {SearchResult(d, userId, n) :
        n \in {m \in DOMAIN LoadUserDatabase(d, userId) :
                  /\ LoadUserDatabase(d, userId)[m].title # Undef
                  /\ SearchMatches(LoadUserDatabase(d, userId)[m],
                                   ReadNoteFile(d, userId, m), query)}}

\* ensureUserDir, q.toLowerCase(), searchNotes
Search(userId, q) ==
    /\ disk' = EnsureUserDir(disk, userId)
    /\ resp' = [Response("search", userId, NoNote, 200, Undef, Undef, NoData)
                   EXCEPT !.query = q,
                          !.results = SearchNotes(EnsureUserDir(disk, userId), userId,
                                                  ToLowerCase(Spell(q)))]
    /\ UNCHANGED <<clock, shareSeq, procs>>

\* admin has removed the demo note
InitSearch ==
    /\ disk = DeleteEffect(StartedDisk, "admin", "welcome")
    /\ clock = 0
    /\ shareSeq = 0
    /\ resp = NoResponse
    /\ procs = [p \in ProcIds |-> IdleProc]

SearchBodies ==
    [title : {"Ab"}, markdown : {"Cd", Undef}, tags : {<<"Ef">>, <<>>},
     groups : {<<"Gh">>, UndefList}, password : {Undef}, isPasswordProtected : {Undef}]

Queries == {"", "ab", "B", "cd", "EF", "gh", "zz"}

NextSearch ==
    \/ \E n \in NoteIds, body \in SearchBodies : SaveFile("admin", n, body)
    \/ \E q \in Queries : Search("admin", q)

SpecSearch == InitSearch /\ [][NextSearch]_vars

----------------------------------------------------------------------------
(* ensureUserDir on a data directory in any state *)

\* what may be under data/<user>/ before a request of the user: nothing, the
\* directory alone, or the directory with its notes directory, its database.json
\* or both
UserDirStates == {{}, {"dir"}, {"dir", "notes"}, {"dir", "db"}, {"dir", "notes", "db"}}

\* StartedDisk with bob's account, bob's directory in one of its states, and bob
\* listed in the users index or not
PriorDisks ==
    {[StartedDisk EXCEPT
         !.users = Put(@, "bob", Account(FALSE)),
         !.userDirs = IF "dir" \in dir THEN @ \cup {"bob"} ELSE @,
         !.notesDirs = IF "notes" \in dir THEN @ \cup {"bob"} ELSE @,
         !.db = IF "db" \in dir THEN Put(@, "bob", EmptyDatabase) ELSE @,
         !.usersIndexExists = indexExists,
         !.usersIndex = IF listed THEN Append(@, "bob") ELSE @] :
        dir \in UserDirStates, indexExists \in BOOLEAN, listed \in BOOLEAN}

InitEnsure ==
    /\ disk \in PriorDisks
    /\ clock = 0
    /\ shareSeq = 0
    /\ resp = NoResponse
    /\ procs = [p \in ProcIds |-> IdleProc]

\* requests that call ensureUserDir, and uploads, whose fs.mkdir creates the
\* user's directory on the way to the media directory
NextEnsure ==
    \/ \E u \in Users : ListFiles(u)
    \/ \E u \in Users, n \in NoteIds : UploadMedia(u, n)

SpecEnsure == InitEnsure /\ [][NextEnsure]_vars

\* an account created while an import is in flight
NewUsers == {"carol"}

\* an import in flight while the admin creates accounts and users upload images
NextRegistry ==
    \/ \E backup \in {Backup, NoIndexBackup} : BeginImport(1, backup)
    \/ ImportStep(1)
    \/ \E u \in NewUsers : CreateUser(u, FALSE)
    \/ \E u \in SessionUsers, n \in {"n1"} : UploadMedia(u, n)

SpecRegistry == Init /\ [][NextRegistry]_vars

----------------------------------------------------------------------------
(* Note requests of several users *)

\* user names the admin creates accounts with: the handler tests only the length
\* of the name
IsolationUsers == {"bob", "x/bob"}

IsolationBodies == {body \in SaveBodies : body.markdown = "C1" /\ body.password = Undef}

IsolationTargets == {<<u, n>> \in (SessionUsers \cap IsolationUsers) \X {"n1"} : TRUE}

\* what data/<dir of the user>/ holds: database.json, the markdown files and the
\* media directories
UserStore(d, userId) ==
    [database |-> IF GetUserDir(userId) \in DOMAIN d.db
                  THEN <<d.db[GetUserDir(userId)]>> ELSE <<>>,
     notes |-> {<<k[2], d.notes[k]>> : k \in {x \in DOMAIN d.notes : x[1] = GetUserDir(userId)}},
     media |-> {k[2] : k \in {x \in d.media : x[1] = GetUserDir(userId)}}]

NextIsolation ==
    \/ \E u \in IsolationUsers : CreateUser(u, FALSE)
    \/ \E t \in IsolationTargets, body \in IsolationBodies : SaveFile(t[1], t[2], body)
    \/ \E t \in IsolationTargets : NewFile(t[1], t[2], Undef)
    \/ \E t \in IsolationTargets, body \in MetadataBodies : UpdateMetadata(t[1], t[2], body)
    \/ \E t \in IsolationTargets : GenerateShare(t[1], t[2])
    \/ \E t \in IsolationTargets : RemoveShare(t[1], t[2])
    \/ \E t \in IsolationTargets : DeleteFile(t[1], t[2])
    \/ \E t \in IsolationTargets : UploadMedia(t[1], t[2])

SpecIsolation == Init /\ [][NextIsolation]_vars

----------------------------------------------------------------------------
(* Listing, search and export over files that cannot be read *)

FaultNote(now) ==
    NewData([title |-> "Ab", markdown |-> "Cd", tags |-> <<>>, groups |-> <<>>,
             isPasswordProtected |-> JsFalse], now)

\* admin and bob have saved notes
FaultBase ==
    LET d0 == EnsureUserDir(
                  [DeleteEffect(StartedDisk, "admin", "welcome")
                      EXCEPT !.users = Put(@, "bob", Account(FALSE))], "bob")
        d1 == WriteNoteData(d0, "admin", "n1", FaultNote(0))
        d2 == WriteNoteData(d1, "admin", "old1", FaultNote(1))
        d3 == WriteNoteData(d2, "bob", "n1", FaultNote(1))
    IN  WriteNoteData(d3, "bob", "welcome", FaultNote(2))

\* some of the markdown files cannot be read by the server process (their
\* permissions, a failing disk)
FaultyDisks ==
    {[FaultBase EXCEPT !.unreadable = files] : files \in SUBSET DOMAIN FaultBase.notes}

InitFaults ==
    /\ disk \in FaultyDisks
    /\ clock = 0
    /\ shareSeq = 0
    /\ resp = NoResponse
    /\ procs = [p \in ProcIds |-> IdleProc]

NextFaults ==
    \/ \E u \in Users : ListFiles(u)
    \/ \E u \in Users, q \in {"", "ab", "cd"} : Search(u, q)
    \/ ExportBackup

SpecFaults == InitFaults /\ [][NextFaults]_vars

----------------------------------------------------------------------------
(* Server start *)

\* data/_system is created, with an empty users index, when it is missing
EnsureDataDir(d) ==
    IF d.systemDir THEN d
    ELSE [d EXCEPT !.systemDir = TRUE, !.usersIndexExists = TRUE, !.usersIndex = <<>>]

\* users.json is created with the admin account when it is missing; every writer
\* of users.json keeps the admin account, so the empty map stands for no file
InitializeUsers(d) ==
    IF DOMAIN d.users = {} THEN [d EXCEPT !.users = Put(@, "admin", Account(TRUE))]
    ELSE d

\* for (const note of demoNotes): a demo note absent from the index is written
RECURSIVE WriteDemoNotes(_, _)
WriteDemoNotes(d, noteIds) ==
    IF noteIds = {} THEN d
    ELSE LET n == CHOOSE x \in noteIds : TRUE
             d1 == IF n \in DOMAIN LoadUserDatabase(d, "admin") THEN d
                   ELSE WriteNoteData(d, "admin", n, DemoNote)
         IN  WriteDemoNotes(d1, noteIds \ {n})

InitializeDemoNotes(d) ==
    IF "admin" \notin DOMAIN d.users THEN d
    ELSE WriteDemoNotes(EnsureUserDir(d, "admin"), DemoNoteIds)

\* Promise.all([ensureDataDir(), ensureSharedDir(), initializeUsers(),
\* initializeSettings()]) and then initializeDemoNotes
StartUp(d) == InitializeDemoNotes(InitializeUsers(EnsureDataDir(d)))

\* the data directory before a start: data/_system missing, present without
\* users-index.json, or present with it; admin's directory in one of its states;
\* users.json missing or holding the admin account
PriorDataDirs ==
    {[StartedDisk EXCEPT
         !.users = IF usersFile THEN @ ELSE <<>>,
         !.systemDir = system # "none",
         !.usersIndexExists = system \in {"empty", "admin"},
         !.usersIndex = IF system = "admin" THEN <<"admin">> ELSE <<>>,
         !.userDirs = IF "dir" \in dir THEN {"admin"} ELSE {},
         !.notesDirs = IF "notes" \in dir THEN {"admin"} ELSE {},
         !.db = IF "db" \in dir THEN [u \in {"admin"} |-> EmptyDatabase] ELSE <<>>,
         !.notes = <<>>] :
        usersFile \in BOOLEAN, system \in {"none", "dir", "empty", "admin"},
        dir \in UserDirStates}

InitStartUp ==
    /\ disk \in PriorDataDirs
    /\ clock = 0
    /\ shareSeq = 0
    /\ resp = NoResponse
    /\ procs = [p \in ProcIds |-> IdleProc]

\* the server starts, or starts again
StartServer ==
    /\ disk' = StartUp(disk)
    /\ resp' = Response("start", NoUser, NoNote, 0, Undef, Undef, NoData)
    /\ UNCHANGED <<clock, shareSeq, procs>>

\* requests are served once the server has started
NextStartUp ==
    \/ StartServer
    \/ resp.op # "none" /\ \E body \in StoreBodies : SaveFile("admin", "n1", body)
    \/ resp.op # "none" /\ \E n \in NoteIds : DeleteFile("admin", n)
    \/ resp.op # "none" /\ ListFiles("admin")

SpecStartUp == InitStartUp /\ [][NextStartUp]_vars

----------------------------------------------------------------------------
(* The scripts: init-existing-users, migrate-to-database, migrate-notes *)

\* the directories under data/<user>/ other than notes
LegacyNoteDirs(d, userId) ==
    {k[2] : k \in {x \in DOMAIN d.legacyMeta \cup DOMAIN d.legacyContent
                        \cup DOMAIN d.legacyNote \cup d.legacyMedia : x[1] = userId}}

\* what the scripts read of a note directory: metadata.json with content.md, else
\* note.json with markdown || ''; neither one: the directory is skipped
ScanLegacyNote(d, userId, noteId) ==
    LET k == <<userId, noteId>>
    IN  IF k \in DOMAIN d.legacyMeta
        THEN Found(WithMarkdown(d.legacyMeta[k],
                 IF k \in DOMAIN d.legacyContent THEN d.legacyContent[k] ELSE ""))
        ELSE IF k \in DOMAIN d.legacyNote
        THEN Found(WithMarkdown(MetadataOf(d.legacyNote[k]),
                                OrElse(d.legacyNote[k].markdown, "")))
        ELSE NotFound

ScannedNotes(d, userId) ==
    {n \in LegacyNoteDirs(d, userId) : ScanLegacyNote(d, userId, n).found}

\* the database object a script builds from the directories it could read
ScannedDatabase(d, userId) ==
    [n \in ScannedNotes(d, userId) |-> MetadataOf(ScanLegacyNote(d, userId, n).data)]

\* fs.writeFile(newNotePath, markdown) for every directory that was read
WriteScannedNotes(d, userId) ==
    [d EXCEPT !.notes =
        [k \in DOMAIN @ \cup {<<userId, n>> : n \in ScannedNotes(d, userId)} |->
            IF k[1] = userId /\ k[2] \in ScannedNotes(d, userId)
            THEN ScanLegacyNote(d, userId, k[2]).data.markdown
            ELSE @[k]]]

\* fs.rename(oldMediaDir, newMediaDir) for every directory that was read; the
\* rename throws, and is caught, when the new media directory exists
MoveScannedMedia(d, userId) ==
    LET moved == {k \in d.legacyMedia \ d.media :
                     k[1] = userId /\ k[2] \in ScannedNotes(d, userId)}
    IN  [d EXCEPT !.media = @ \cup moved, !.legacyMedia = @ \ moved]

\* an init-existing-users that scans a user whose database.json exists
InitializeUserDatabaseRescanning(d, userId) ==
    LET d1 == [d EXCEPT !.notesDirs = @ \cup {userId}]
        d2 == MoveScannedMedia(WriteScannedNotes(d1, userId), userId)
    IN  [d2 EXCEPT !.db = Put(@, userId, ScannedDatabase(d, userId)),
                   !.torn = @ \ {userId}]

\* a user whose database.json exists is left alone; else the notes directory is
\* created, the note directories are scanned (and stay), and database.json is
\* written
InitializeUserDatabase(d, userId) ==
    IF userId \in DOMAIN d.db THEN d
    ELSE LET d1 == [d EXCEPT !.notesDirs = @ \cup {userId}]
             d2 == MoveScannedMedia(WriteScannedNotes(d1, userId), userId)
         IN  [d2 EXCEPT !.db = Put(@, userId, ScannedDatabase(d, userId)),
                        !.torn = @ \ {userId}]

RECURSIVE InitializeAll(_, _)
InitializeAll(d, users) ==
    IF users = {} THEN d
    ELSE LET u == CHOOSE x \in users : TRUE
         IN  InitializeAll(InitializeUserDatabase(d, u), users \ {u})

\* main of init-existing-users: data/_system is created, every directory of data/
\* but _system is a user, and the users index is written from that list
InitExistingUsers(d) ==
    LET d0 == [d EXCEPT !.systemDir = TRUE]
    IN  IF d.userDirs = {} THEN d0
        ELSE [InitializeAll(d0, d.userDirs) EXCEPT !.usersIndexExists = TRUE,
                                                   !.usersIndex = Readdir(d.userDirs)]

\* fs.rm(noteDir, { recursive: true, force: true }) for every directory that was read
RemoveScannedDirs(d, userId) ==
    LET gone == {<<userId, n>> : n \in ScannedNotes(d, userId)}
        Without(f) == [k \in DOMAIN f \ gone |-> f[k]]
    IN  [d EXCEPT !.legacyMeta = Without(@), !.legacyContent = Without(@),
                  !.legacyNote = Without(@), !.legacyMedia = @ \ gone]

\* a migration that removes the directories it could not read as well
MigrateUserRemovingAll(d, userId, dryRun) ==
    IF dryRun THEN d
    ELSE LET d1 == IF ScannedNotes(d, userId) = {} THEN d
                   ELSE [d EXCEPT !.notesDirs = @ \cup {userId}]
             d2 == MoveScannedMedia(WriteScannedNotes(d1, userId), userId)
             gone == {<<userId, n>> : n \in LegacyNoteDirs(d, userId)}
             Without(f) == [k \in DOMAIN f \ gone |-> f[k]]
         IN  [d2 EXCEPT !.legacyMeta = Without(@), !.legacyContent = Without(@),
                        !.legacyNote = Without(@), !.legacyMedia = @ \ gone,
                        !.db = Put(@, userId, ScannedDatabase(d, userId)),
                        !.torn = @ \ {userId}]

\* migrateUser: without --execute it only reads; with it every directory that
\* could be read becomes notes/<id>.md and an entry of a new database.json, its
\* media directory is moved and the directory is removed
MigrateUser(d, userId, dryRun) ==
    IF dryRun THEN d
    ELSE LET d1 == IF ScannedNotes(d, userId) = {} THEN d
                   ELSE [d EXCEPT !.notesDirs = @ \cup {userId}]
             d2 == MoveScannedMedia(WriteScannedNotes(d1, userId), userId)
         IN  [RemoveScannedDirs(d2, userId) EXCEPT
                 !.db = Put(@, userId, ScannedDatabase(d, userId)),
                 !.torn = @ \ {userId}]

RECURSIVE MigrateAll(_, _, _)
MigrateAll(d, users, dryRun) ==
    IF users = {} THEN d
    ELSE LET u == CHOOSE x \in users : TRUE
         IN  MigrateAll(MigrateUser(d, u, dryRun), users \ {u}, dryRun)

\* main of migrate-to-database: data/_system is created before dryRun is looked
\* at; the users index is written only with --execute
MigrateToDatabase(d, dryRun) ==
    LET d0 == [d EXCEPT !.systemDir = TRUE]
    IN  IF d.userDirs = {} THEN d0
        ELSE IF dryRun THEN MigrateAll(d0, d.userDirs, TRUE)
        ELSE [MigrateAll(d0, d.userDirs, FALSE) EXCEPT
                 !.usersIndexExists = TRUE, !.usersIndex = Readdir(d.userDirs)]

\* migrate-notes: every directory with a note.json gets metadata.json and
\* content.md written from it; note.json is removed with --remove-old
MigrateNotes(d, dryRun, removeOld) ==
    IF dryRun THEN d
    ELSE [d EXCEPT
             !.legacyMeta = [k \in DOMAIN @ \cup DOMAIN d.legacyNote |->
                 IF k \in DOMAIN d.legacyNote THEN MetadataOf(d.legacyNote[k]) ELSE @[k]],
             !.legacyContent = [k \in DOMAIN @ \cup DOMAIN d.legacyNote |->
                 IF k \in DOMAIN d.legacyNote THEN OrElse(d.legacyNote[k].markdown, "")
                 ELSE @[k]],
             !.legacyNote = IF removeOld THEN [k \in {} |-> NoData] ELSE @]

\* a directory the scripts cannot read: content.md alone
UnreadableDir(d, userId, noteId) ==
    [d EXCEPT !.legacyContent = Put(@, <<userId, noteId>>, "stray text")]

\* bob's directory: none; one without database.json, holding a note.json note
\* with media and a directory that cannot be read; the same with database.json
\* and notes/
BobDirs(d) ==
    LET legacy == [UnreadableDir(d, "bob", LegacyNoteId) EXCEPT
                      !.userDirs = @ \cup {"bob"},
                      !.legacyNote = Put(@, <<"bob", "n1">>,
                          WithMarkdown([LegacyMetadata EXCEPT !.title = "Bob's"], "# Bob's")),
                      !.legacyMedia = @ \cup {<<"bob", "n1">>}]
    IN  {d, legacy,
         [legacy EXCEPT !.notesDirs = @ \cup {"bob"},
                        !.db = Put(@, "bob", EmptyDatabase)]}

\* the data directories the scripts are run on: admin as the server left it with
\* data/admin/old1/ in one of its states, bob's directory in one of its states,
\* data/_system/ present or missing
ScriptInstallations ==
    UNION {BobDirs([d EXCEPT !.systemDir = system, !.usersIndexExists = system,
                             !.usersIndex = IF system THEN @ ELSE <<>>]) :
              d \in Installations, system \in BOOLEAN}

InitScripts ==
    /\ disk \in ScriptInstallations
    /\ clock = 0
    /\ shareSeq = 0
    /\ resp = NoResponse
    /\ procs = [p \in ProcIds |-> IdleProc]

\* node init-existing-users.js
RunInitExistingUsers ==
    /\ disk' = InitExistingUsers(disk)
    /\ resp' = [Response("initUsers", NoUser, NoNote, 0, Undef, Undef, NoData)
                   EXCEPT !.created = disk.userDirs \ DOMAIN disk.db,
                          !.kept = disk.userDirs \cap DOMAIN disk.db]
    /\ UNCHANGED <<clock, shareSeq, procs>>

\* node migrate-to-database.js [--execute]
RunMigrateToDatabase(dryRun) ==
    /\ disk' = MigrateToDatabase(disk, dryRun)
    /\ resp' = [Response("migrateDatabase", NoUser, NoNote, 0, Undef, Undef, NoData)
                   EXCEPT !.dryRun = dryRun,
                          !.migrated = {<<u, n>> \in disk.userDirs \X (NoteIds \cup {LegacyNoteId}) :
                                           n \in ScannedNotes(disk, u)},
                          !.skipped = {<<u, n>> \in disk.userDirs \X (NoteIds \cup {LegacyNoteId}) :
                                          n \in LegacyNoteDirs(disk, u) \ ScannedNotes(disk, u)}]
    /\ UNCHANGED <<clock, shareSeq, procs>>

\* node migrate-notes.js [--execute] [--remove-old]
RunMigrateNotes(dryRun, removeOld) ==
    /\ disk' = MigrateNotes(disk, dryRun, removeOld)
    /\ resp' = [Response("migrateNotes", NoUser, NoNote, 0, Undef, Undef, NoData)
                   EXCEPT !.dryRun = dryRun,
                          !.migrated = DOMAIN disk.legacyNote]
    /\ UNCHANGED <<clock, shareSeq, procs>>

NextScripts ==
    \/ RunInitExistingUsers
    \/ \E dryRun \in BOOLEAN : RunMigrateToDatabase(dryRun)
    \/ \E dryRun \in BOOLEAN, removeOld \in BOOLEAN : RunMigrateNotes(dryRun, removeOld)

SpecScripts == InitScripts /\ [][NextScripts]_vars

----------------------------------------------------------------------------
(* A database.json that is being written *)

\* fs.writeFile(dbPath) has opened and truncated database.json and has not yet
\* written all of it: until it has, a reader's JSON.parse throws
TruncateIndex(p) ==
    /\ procs[p].pc = "saveWrite"
    /\ disk' = [disk EXCEPT !.torn = @ \cup {GetUserDir(procs[p].userId)}]
    /\ procs' = [procs EXCEPT ![p] = [@ EXCEPT !.pc = "saveWriting"]]
    /\ UNCHANGED <<clock, shareSeq, resp>>

TornBodies ==
    [title : {"T1"}, markdown : {"C1"}, tags : {UndefList},
     groups : {UndefList}, password : {Undef}, isPasswordProtected : {Undef}]

\* two saves of admin in flight; a write of database.json may be seen half done
NextTorn ==
    \/ \E p \in ProcIds, n \in NoteIds, body \in TornBodies :
           BeginSave(p, "admin", n, body)
    \/ \E p \in ProcIds : ReadLoad(p)
    \/ \E p \in ProcIds : ReadFile(p)
    \/ \E p \in ProcIds : WriteLoad(p)
    \/ \E p \in ProcIds : TruncateIndex(p)
    \/ \E p \in ProcIds : SaveWrite(p)
    \/ \E p \in ProcIds : NoteWrite(p)

SpecTorn == Init /\ [][NextTorn]_vars

----------------------------------------------------------------------------
(* POST /api/file/share/:noteId in flight *)

\* the request arrives
BeginShare(p, userId, noteId) ==
    /\ procs[p].pc = "idle"
    /\ procs' = [procs EXCEPT ![p] =
           [IdleProc EXCEPT !.pc = "shareRead", !.op = "share", !.userId = userId,
                            !.noteId = noteId]]
    /\ UNCHANGED <<disk, clock, shareSeq, resp>>

\* await readNoteData; a note without a share identifier gets a fresh one
ShareRead(p) ==
    /\ procs[p].pc = "shareRead"
    /\ LET proc == procs[p]
           existing == ReadNoteData(disk, proc.userId, proc.noteId)
       IN  IF ~existing.found \/ HasShare(existing.data)
           THEN /\ procs' = [procs EXCEPT ![p] =
                       [proc EXCEPT !.pc = "done", !.result = existing]]
                /\ UNCHANGED <<clock, shareSeq>>
           ELSE /\ clock < MaxClock
                /\ shareSeq < MaxShares
                /\ procs' = [procs EXCEPT ![p] =
                       [proc EXCEPT !.pc = "shareWriteNote", !.now = clock + 1,
                                    !.data = [existing.data EXCEPT
                                                 !.shareId = ShareTokens[shareSeq + 1],
                                                 !.updatedAt = clock + 1]]]
                /\ clock' = clock + 1
                /\ shareSeq' = shareSeq + 1
    /\ UNCHANGED <<disk, resp>>

\* await writeNoteData
ShareWriteNote(p) ==
    /\ procs[p].pc = "shareWriteNote"
    /\ disk' = WriteNoteData(disk, procs[p].userId, procs[p].noteId, procs[p].data)
    /\ procs' = [procs EXCEPT ![p] = [@ EXCEPT !.pc = "shareWriteFile"]]
    /\ UNCHANGED <<clock, shareSeq, resp>>

\* await fs.writeFile(sharedPath), then the response
ShareWriteFile(p) ==
    /\ procs[p].pc = "shareWriteFile"
    /\ disk' = WriteShareFile(disk, procs[p].data.shareId, procs[p].userId,
                              procs[p].noteId, procs[p].now)
    /\ procs' = [procs EXCEPT ![p] = [@ EXCEPT !.pc = "done"]]
    /\ UNCHANGED <<clock, shareSeq, resp>>

\* the response has been sent
Finish(p) ==
    /\ procs[p].pc = "done"
    /\ procs' = [procs EXCEPT ![p] = IdleProc]
    /\ UNCHANGED <<disk, clock, shareSeq, resp>>

\* share requests of admin's notes in flight together; admin creates note n1 in
\* between
NextShareConc ==
    \/ \E p \in ProcIds, n \in NoteIds : BeginShare(p, "admin", n)
    \/ \E p \in ProcIds : ShareRead(p)
    \/ \E p \in ProcIds : ShareWriteNote(p)
    \/ \E p \in ProcIds : ShareWriteFile(p)
    \/ \E p \in ProcIds : Finish(p)
    \/ \E body \in TornBodies : SaveFile("admin", "n1", body)

SpecShareConc == Init /\ [][NextShareConc]_vars

----------------------------------------------------------------------------
(* Sessions and the admin routes *)

MAX_LOGIN_ATTEMPTS == 5
\* 15 minutes, in steps of 5 minutes
LOCKOUT_TIME == 3

\* a rate limit that never refuses
CheckRateLimitOpen(record, now) ==
    IF record = NoRecord THEN [ok |-> TRUE, record |-> record]
    ELSE IF now - record.timestamp > LOCKOUT_TIME THEN [ok |-> TRUE, record |-> NoRecord]
    ELSE [ok |-> TRUE, record |-> record]

\* checkRateLimit(ip) at time now: the answer, and the entry it leaves
CheckRateLimit(record, now) ==
    IF record = NoRecord THEN [ok |-> TRUE, record |-> record]
    ELSE IF now - record.timestamp > LOCKOUT_TIME THEN [ok |-> TRUE, record |-> NoRecord]
    ELSE [ok |-> record.count < MAX_LOGIN_ATTEMPTS, record |-> record]

\* recordFailedAttempt(ip) at time now
RecordFailedAttempt(record, now) ==
    IF record = NoRecord \/ now - record.timestamp > LOCKOUT_TIME
    THEN [count |-> 1, timestamp |-> now]
    ELSE [record EXCEPT !.count = @ + 1]

\* bcrypt.compare(password, user.password): accounts keep no password here, a
\* login presents the account's password ("right") or another one
ValidPassword(password) == password = "right"

\* POST /api/auth/login from the client p: the session keeps the user's name and
\* the admin flag the account has at that moment
Login(p, username, password) ==
    /\ procs[p].pc \in {"idle", "session"}
    /\ LET checked == CheckRateLimit(procs[p].attempts, clock)
       IN  IF ~Truthy(username) \/ ~Truthy(password)
           THEN /\ resp' = Response("login", username, NoNote, 400, Undef, password, NoData)
                /\ UNCHANGED procs
           ELSE IF ~checked.ok
           THEN /\ resp' = Response("login", username, NoNote, 429, Undef, password, NoData)
                /\ procs' = [procs EXCEPT ![p].attempts = checked.record]
           ELSE IF username \notin DOMAIN disk.users \/ ~ValidPassword(password)
           THEN /\ resp' = Response("login", username, NoNote, 401, Undef, password, NoData)
                /\ procs' = [procs EXCEPT ![p].attempts =
                                 RecordFailedAttempt(checked.record, clock)]
           ELSE /\ resp' = Response("login", username, NoNote, 200, Undef, password, NoData)
                /\ procs' = [procs EXCEPT ![p] =
                       [IdleProc EXCEPT !.pc = "session", !.userId = username,
                                        !.isAdmin = disk.users[username].isAdmin,
                                        !.attempts = checked.record]]
    /\ UNCHANGED <<disk, clock, shareSeq>>

\* POST /api/auth/logout: req.session.destroy
Logout(p) ==
    /\ procs[p].pc = "session"
    /\ procs' = [procs EXCEPT ![p] = [IdleProc EXCEPT !.attempts = procs[p].attempts]]
    /\ UNCHANGED <<disk, clock, shareSeq, resp>>

\* requireAdmin: the flag of the session, not of the account
RequireAdmin(session) == session.pc = "session" /\ session.isAdmin

\* POST /api/admin/users from a session
AdminCreateUser(p, username, isAdmin) ==
    /\ RequireAdmin(procs[p])
    /\ CreateUser(username, isAdmin)

\* the accounts with isAdmin
Admins(users) == {u \in DOMAIN users : users[u].isAdmin}

\* a password shorter than 6 characters
TooShort(password) == password \in {"", "pw1", "pw2"}

\* PUT /api/admin/users/:username: the last admin keeps the flag; a password of
\* at least 6 characters is hashed; a boolean isAdmin is stored
UpdateUser(p, username, password, isAdmin) ==
    /\ RequireAdmin(procs[p])
    /\ IF username \notin DOMAIN disk.users
       THEN /\ resp' = Response("updateUser", username, NoNote, 404, Undef, password, NoData)
            /\ UNCHANGED disk
       ELSE IF /\ disk.users[username].isAdmin
               /\ isAdmin = JsFalse
               /\ Cardinality(Admins(disk.users)) <= 1
       THEN /\ resp' = Response("updateUser", username, NoNote, 400, Undef, password, NoData)
            /\ UNCHANGED disk
       ELSE IF Truthy(password) /\ TooShort(password)
       THEN /\ resp' = Response("updateUser", username, NoNote, 400, Undef, password, NoData)
            /\ UNCHANGED disk
       ELSE /\ disk' = IF isAdmin \in {JsTrue, JsFalse}
                       THEN [disk EXCEPT !.users[username].isAdmin = (isAdmin = JsTrue)]
                       ELSE disk
            /\ resp' = Response("updateUser", username, NoNote, 200, Undef, password, NoData)
    /\ UNCHANGED <<clock, shareSeq, procs>>

\* DELETE /api/admin/users/:username from a session: not the session's own account
AdminDeleteUser(p, username) ==
    /\ RequireAdmin(procs[p])
    /\ IF username # "admin" /\ username = procs[p].userId
       THEN /\ resp' = Response("deleteUser", username, NoNote, 400, Undef, Undef, NoData)
            /\ UNCHANGED <<disk, clock, shareSeq, procs>>
       ELSE DeleteUser(username)

AdminNames == {"admin", "bob", "carol"}

NextAdmins ==
    \/ \E p \in ProcIds, username \in DOMAIN disk.users : Login(p, username, "right")
    \/ \E p \in ProcIds : Logout(p)
    \/ \E p \in ProcIds, username \in AdminNames, isAdmin \in BOOLEAN :
           AdminCreateUser(p, username, isAdmin)
    \/ \E p \in ProcIds, username \in AdminNames, password \in {Undef, "pw1", "password1"},
          isAdmin \in {JsTrue, JsFalse, Undef} :
           UpdateUser(p, username, password, isAdmin)
    \/ \E p \in ProcIds, username \in AdminNames : AdminDeleteUser(p, username)

SpecAdmins == Init /\ [][NextAdmins]_vars

----------------------------------------------------------------------------
(* Failed logins and the lockout *)

MaxTime == 4

\* 5 minutes pass
Tick ==
    /\ clock < MaxTime
    /\ clock' = clock + 1
    /\ UNCHANGED <<disk, shareSeq, resp, procs>>

LoginNames == {Undef, "admin", "nobody"}
LoginPasswords == {Undef, "right", "wrong"}

NextLockout ==
    \/ \E p \in ProcIds, username \in LoginNames, password \in LoginPasswords :
           Login(p, username, password)
    \/ Tick

SpecLockout == Init /\ [][NextLockout]_vars

----------------------------------------------------------------------------
(* migrate-to-database --execute, one file operation after another *)

\* migrateUser starts: database = { notes: {} }, and fs.readdir(userDir)
BeginMigrateUser(p, userId) ==
    /\ procs[p].pc = "idle"
    /\ userId \in disk.userDirs
    /\ procs' = [procs EXCEPT ![p] =
           [IdleProc EXCEPT !.pc = "migrateNote", !.op = "migrateDatabase",
                            !.userId = userId,
                            !.index = Readdir(LegacyNoteDirs(disk, userId))]]
    /\ UNCHANGED <<disk, clock, shareSeq, resp>>

\* the next directory is read; one that can be read is added to the database
\* object, notes/<id>.md is written and its media directory is moved
MigrateNote(p) ==
    /\ procs[p].pc = "migrateNote"
    /\ procs[p].index # <<>>
    /\ LET proc == procs[p]
           noteId == Head(proc.index)
           k == <<proc.userId, noteId>>
           scan == ScanLegacyNote(disk, proc.userId, noteId)
       IN  IF ~scan.found
           THEN /\ procs' = [procs EXCEPT ![p] = [proc EXCEPT !.index = Tail(@)]]
                /\ UNCHANGED disk
           ELSE /\ procs' = [procs EXCEPT ![p] =
                       [proc EXCEPT !.pc = "migrateRemove", !.noteId = noteId,
                                    !.database = PutNote(@, noteId, MetadataOf(scan.data))]]
                /\ disk' = [disk EXCEPT
                       !.notesDirs = @ \cup {proc.userId},
                       !.notes = Put(@, k, scan.data.markdown),
                       !.media = IF k \in disk.legacyMedia THEN @ \cup {k} ELSE @,
                       !.legacyMedia = IF k \in @ \ disk.media THEN @ \ {k} ELSE @]
    /\ UNCHANGED <<clock, shareSeq, resp>>

\* fs.rm(noteDir, { recursive: true, force: true })
MigrateRemove(p) ==
    /\ procs[p].pc = "migrateRemove"
    /\ LET k == <<procs[p].userId, procs[p].noteId>>
       IN  disk' = [disk EXCEPT !.legacyMeta = [x \in DOMAIN @ \ {k} |-> @[x]],
                                !.legacyContent = [x \in DOMAIN @ \ {k} |-> @[x]],
                                !.legacyNote = [x \in DOMAIN @ \ {k} |-> @[x]],
                                !.legacyMedia = @ \ {k}]
    /\ procs' = [procs EXCEPT ![p] = [@ EXCEPT !.pc = "migrateNote", !.index = Tail(@)]]
    /\ UNCHANGED <<clock, shareSeq, resp>>

\* after the loop: fs.writeFile(databasePath, JSON.stringify(database))
MigrateWriteDatabase(p) ==
    /\ procs[p].pc = "migrateNote"
    /\ procs[p].index = <<>>
    /\ disk' = [disk EXCEPT !.db = Put(@, procs[p].userId, procs[p].database),
                            !.torn = @ \ {procs[p].userId}]
    /\ procs' = [procs EXCEPT ![p] = IdleProc]
    /\ UNCHANGED <<clock, shareSeq, resp>>

\* one run of the script at a time
NextMigration ==
    \/ \E userId \in Users : BeginMigrateUser(1, userId)
    \/ MigrateNote(1)
    \/ MigrateRemove(1)
    \/ MigrateWriteDatabase(1)

SpecMigration == InitScripts /\ [][NextMigration]_vars

----------------------------------------------------------------------------
(* Claims about requests in flight (SpecConc) *)

\* the awaits of writeNoteData, and the response after it
Writing == {"saveWrite", "noteWrite", "done"}

\* C1: a read of note id that runs while a write of note N to id is in flight never
\* returns N's metadata together with a content other than N's (older, or missing)
C1_WriteOrdering ==
    \A r \in ProcIds, w \in ProcIds :
        ( /\ procs[r].op = "get" /\ procs[r].pc = "done" /\ procs[r].result.found
          /\ procs[w].op = "save" /\ procs[w].pc \in Writing
          /\ procs[r].userId = procs[w].userId /\ procs[r].noteId = procs[w].noteId
          /\ MetadataOf(procs[r].result.data) = MetadataOf(procs[w].data) )
        => procs[r].result.data.markdown = OrElse(procs[w].data.markdown, "")

\* C2: once two saves of two different notes of one user have both responded, the
\* user's index holds both notes
C2_NoLostIndexUpdate ==
    \A p \in ProcIds, q \in ProcIds :
        ( /\ p # q
          /\ procs[p].op = "save" /\ procs[p].pc = "done"
          /\ procs[q].op = "save" /\ procs[q].pc = "done"
          /\ procs[p].userId = procs[q].userId /\ procs[p].noteId # procs[q].noteId )
        => {procs[p].noteId, procs[q].noteId}
               \subseteq DOMAIN LoadUserDatabase(disk, procs[p].userId)

----------------------------------------------------------------------------
(* Claims about requests handled one at a time (Spec) *)

\* the content a note reads back with: a request that sends no markdown writes ''
ContentOf(data) == OrElse(data.markdown, "")

\* C3: after writeNoteData(u, id, N) has completed, readNoteData(u, id) returns N's
\* title, content, tags, groups and password-protection flag, and getNotesForUser(u)
\* holds an entry for id with N's metadata
C3_RoundTrip ==
    (resp.wrote /\ resp.status = 200) =>
        LET N == resp.data
            read == ReadNoteData(disk, resp.userId, resp.noteId)
            list == GetNotesForUser(disk, resp.userId)
        IN  /\ read.found
            /\ read.data.title = N.title
            /\ read.data.markdown = ContentOf(N)
            /\ read.data.tags = N.tags
            /\ read.data.groups = N.groups
            /\ read.data.isPasswordProtected = N.isPasswordProtected
            /\ \E i \in 1..Len(list) :
                   /\ list[i].id = resp.noteId
                   /\ list[i].name = N.title
                   /\ list[i].tags = N.tags
                   /\ list[i].groups = N.groups
                   /\ list[i].isPasswordProtected = N.isPasswordProtected
                   /\ list[i].shareId = N.shareId
                   /\ list[i].createdAt = N.createdAt
                   /\ list[i].updatedAt = N.updatedAt

\* a save that overwrote an existing note with other content has completed
C3_Witness ==
    /\ resp.op = "save" /\ resp.wrote /\ resp.status = 200
    /\ resp.noteId = "welcome" /\ resp.data.markdown = "C1"
    /\ resp.data.createdAt = 0
    /\ ReadNoteData(disk, resp.userId, resp.noteId).data.markdown = "C1"

\* the entries of a user's index
Indexed(userId) == DOMAIN LoadUserDatabase(disk, userId)

\* token is a Share Entry naming (userId, noteId)
SharedAs(token, userId, noteId) ==
    /\ token \in DOMAIN disk.shared
    /\ disk.shared[token].userId = userId
    /\ disk.shared[token].noteId = noteId

\* C4: every indexed note that holds a share identifier has a Share Entry under that
\* identifier naming its (user, note) pair
C4_ShareInvariant ==
    \A u \in Users : \A n \in Indexed(u) :
        LET shareId == LoadUserDatabase(disk, u)[n].shareId
        IN  Truthy(shareId) => SharedAs(shareId, u, n)

\* C5: a delete of a note that holds a share identifier leaves no Share Entry under
\* that identifier
C5_DeleteDestroysShare ==
    [][\A u \in Users, n \in NoteIds :
          ( /\ DeleteFile(u, n)
            /\ n \in Indexed(u)
            /\ Truthy(LoadUserDatabase(disk, u)[n].shareId) )
          => LoadUserDatabase(disk, u)[n].shareId \notin DOMAIN disk'.shared]_vars

\* C6: after the share handler has created a share, its token names the note and
\* resolves to it (or to a password error, never to NotFound); after the revoke
\* handler has revoked a share, the token resolves to NotFound and the note holds no
\* share identifier
C6_ShareConsistency ==
    LET read == ReadNoteData(disk, resp.userId, resp.noteId)
    IN  /\ (resp.op = "share" /\ resp.wrote /\ resp.status = 200) =>
               /\ SharedAs(resp.token, resp.userId, resp.noteId)
               /\ read.found /\ read.data.shareId = resp.token
               /\ \A pw \in Passwords :
                      LET shared == AccessShared(disk, resp.token, pw)
                      IN  /\ shared.status # 404
                          /\ shared.status = 200 => shared.data = read.data
        /\ (resp.op = "revoke" /\ resp.wrote /\ resp.status = 200) =>
               /\ \A pw \in Passwords : AccessShared(disk, resp.token, pw).status = 404
               /\ read.found /\ ~Truthy(read.data.shareId)

\* a share that was created in this run has been revoked
C6_Witness ==
    /\ resp.op = "revoke" /\ resp.wrote /\ resp.status = 200
    /\ resp.token = ShareTokens[1]

\* C7: the share handler, on a note that holds a share identifier, returns that
\* identifier and changes neither the Share Registry nor the note
C7_ShareIdempotent ==
    [][\A u \in Users, n \in NoteIds :
          LET existing == ReadNoteData(disk, u, n)
          IN  ( /\ GenerateShare(u, n)
                /\ existing.found
                /\ Truthy(existing.data.shareId) )
              => /\ resp'.status = 200
                 /\ resp'.token = existing.data.shareId
                 /\ disk' = disk]_vars

\* the share handler has answered with a share identifier the note already held
C7_Witness ==
    /\ resp.op = "share" /\ ~resp.wrote /\ resp.status = 200
    /\ resp.token = ShareTokens[1]
    /\ SharedAs(resp.token, resp.userId, resp.noteId)

\* C8: once a request has enabled protection of a note with password P, every share
\* token of the note resolves to PasswordRequired without a password, to
\* InvalidPassword with another password, and to the note's content with P
C8_SharedPassword ==
    ( /\ resp.op \in {"metadata", "save"} /\ resp.status = 200
      /\ Truthy(resp.prot) /\ Truthy(resp.password) ) =>
        \A token \in DOMAIN disk.shared :
            SharedAs(token, resp.userId, resp.noteId) =>
                /\ \A none \in {Undef, ""} :
                       /\ AccessShared(disk, token, none).status = 401
                       /\ AccessShared(disk, token, none).error = "Password required"
                /\ \A other \in Passwords \ {Undef, "", resp.password} :
                       /\ AccessShared(disk, token, other).status = 401
                       /\ AccessShared(disk, token, other).error = "Invalid password"
                /\ AccessShared(disk, token, resp.password).status = 200
                /\ AccessShared(disk, token, resp.password).data.markdown =
                       ReadNoteFile(disk, resp.userId, resp.noteId)

\* a metadata update has enabled protection with "pw1" on a shared note
C8_Witness ==
    /\ resp.op = "metadata" /\ resp.status = 200
    /\ resp.prot = JsTrue /\ resp.password = "pw1"
    /\ \E token \in DOMAIN disk.shared : SharedAs(token, resp.userId, resp.noteId)

\* C9: an indexed note whose isPasswordProtected flag is false stores no password hash
C9_PasswordInvariant ==
    \A u \in Users : \A n \in Indexed(u) :
        LoadUserDatabase(disk, u)[n].isPasswordProtected = JsFalse
            => LoadUserDatabase(disk, u)[n].password = NoHash

\* a metadata update has turned protection off, after an earlier request (the
\* clock was read twice) on the same note
C9_Witness ==
    /\ resp.op = "metadata" /\ resp.wrote /\ resp.status = 200
    /\ resp.prot = JsFalse
    /\ resp.data.updatedAt = 2
    /\ LoadUserDatabase(disk, resp.userId)[resp.noteId].password = NoHash

\* C10: a delete answers success whether or not the note exists, and in the state a
\* delete leaves, deleting the same note again answers success and changes nothing
C10_IdempotentDelete ==
    /\ \A u \in SessionUsers, n \in NoteIds : DeleteStatus(disk, u, n) = 200
    /\ resp.op = "delete" =>
           /\ resp.status = 200
           /\ DeleteEffect(disk, resp.userId, resp.noteId) = disk

\* the demo note has been deleted
C10_Witness ==
    /\ resp.op = "delete" /\ resp.status = 200
    /\ resp.userId = "admin" /\ resp.noteId = "welcome"
    /\ ~ReadNoteData(disk, "admin", "welcome").found
    /\ Key("admin", "welcome") \notin DOMAIN disk.notes

----------------------------------------------------------------------------
(* Claims about delete, the legacy shapes and the listing (SpecStore) *)

\* C11: after a delete the note has no index entry, no markdown file and no media
\* directory, whichever of the three existed before, and the delete answers 200
C11_DeleteRemovesAll ==
    resp.op = "delete" =>
        /\ resp.status = 200
        /\ Artefacts(disk, resp.userId, resp.noteId) = {}

\* a delete has run on a note that had some, not all, of the three
C11_Witness ==
    /\ resp.op = "delete"
    /\ resp.status = 200
    /\ resp.existed \in {{"media"}, {"file"}, {"index", "file"}, {"file", "media"}}

\* the note a legacy directory holds: metadata.json with content.md first, else
\* note.json
HasSplit(d, userId, noteId) == Key(userId, noteId) \in DOMAIN d.legacyMeta
HasCombined(d, userId, noteId) == Key(userId, noteId) \in DOMAIN d.legacyNote
SplitNote(d, userId, noteId) ==
    WithMarkdown(d.legacyMeta[Key(userId, noteId)],
        IF Key(userId, noteId) \in DOMAIN d.legacyContent
        THEN d.legacyContent[Key(userId, noteId)] ELSE Undef)
CombinedNote(d, userId, noteId) == d.legacyNote[Key(userId, noteId)]

\* what readNoteData returns for a note once writeNoteData has stored it
InCurrentFormat(d, userId, noteId, note) ==
    ReadNoteData(WriteNoteData(d, userId, noteId, note), userId, noteId)

\* C12: a get of a note that is absent from the index answers with the note of the
\* split shape when there is one, else with the note of note.json, in both cases
\* with the fields the same note has when read from the current format; it fails
\* only when neither shape exists
C12_LegacyFallback ==
    (resp.op = "get" /\ resp.noteId \notin DOMAIN LoadUserDatabase(disk, resp.userId)) =>
        IF HasSplit(disk, resp.userId, resp.noteId)
        THEN /\ resp.status = 200
             /\ Found(resp.data) = InCurrentFormat(disk, resp.userId, resp.noteId,
                                        SplitNote(disk, resp.userId, resp.noteId))
        ELSE IF HasCombined(disk, resp.userId, resp.noteId)
        THEN /\ resp.status = 200
             /\ Found(resp.data) = InCurrentFormat(disk, resp.userId, resp.noteId,
                                        CombinedNote(disk, resp.userId, resp.noteId))
        ELSE resp.status = 500

\* C13: a get changes nothing on disk, and the same get repeated right after it
\* returns the same note
C13_ReadsPure ==
    [][\A t \in StoreTargets :
          GetFile(t[1], t[2]) =>
              /\ disk' = disk
              /\ LET again == ReadNoteData(disk', t[1], t[2])
                 IN  IF again.found
                     THEN resp'.status = 200 /\ resp'.data = again.data
                     ELSE resp'.status = 500]_vars

\* a legacy note has been read
C13_Witness ==
    /\ resp.op = "get"
    /\ resp.status = 200
    /\ resp.noteId \notin DOMAIN LoadUserDatabase(disk, resp.userId)
    /\ HasSplit(disk, resp.userId, resp.noteId)

\* C20: the listing has one record per index entry and no other record, and no
\* record is followed by one with a later updatedAt
C20_ListFromIndex ==
    resp.op = "list" =>
        LET index == LoadUserDatabase(disk, resp.userId)
        IN  /\ {resp.list[i].id : i \in 1..Len(resp.list)} = DOMAIN index
            /\ Len(resp.list) = Cardinality(DOMAIN index)
            /\ \A i \in 1..(Len(resp.list) - 1) :
                   resp.list[i].updatedAt >= resp.list[i + 1].updatedAt

\* two notes saved at different times are listed while a markdown file without an
\* index entry lies in the notes directory
C20_Witness ==
    /\ resp.op = "list"
    /\ Len(resp.list) >= 2
    /\ resp.list[1].updatedAt > resp.list[2].updatedAt
    /\ \E k \in DOMAIN disk.notes :
           k[1] = resp.userId /\ k[2] \notin DOMAIN LoadUserDatabase(disk, resp.userId)

----------------------------------------------------------------------------
(* Claims about backups (SpecBackup) *)

\* C14: an import leaves every local account as it was and every note of a local
\* index reading as it did (metadata and content), and adds the accounts and
\* the index entries that only the backup has
C14_ImportAdditive ==
    [][\A backup \in {Backup, IndexOnlyBackup} :
          ImportBackup(backup) =>
              /\ \A u \in DOMAIN disk.users :
                     u \in DOMAIN disk'.users /\ disk'.users[u] = disk.users[u]
              /\ \A u \in DOMAIN disk.db :
                     \A n \in DOMAIN LoadUserDatabase(disk, u) :
                         ReadNoteData(disk', u, n) = ReadNoteData(disk, u, n)
              /\ \A i \in 1..Len(backup.users) :
                     backup.users[i].username \in DOMAIN disk'.users
              /\ \A i \in 1..Len(backup.userData) :
                     DOMAIN backup.userData[i].database \subseteq
                         DOMAIN LoadUserDatabase(disk', backup.userData[i].username)]_vars

\* C15: an import leaves every markdown file that was on disk with the content it
\* had, and the files it writes are files of the backup that were not on disk
C15_ImportKeepsFiles ==
    [][\A backup \in {Backup, IndexOnlyBackup} :
          ImportBackup(backup) =>
              /\ \A k \in DOMAIN disk.notes :
                     k \in DOMAIN disk'.notes /\ disk'.notes[k] = disk.notes[k]
              /\ \A k \in DOMAIN disk'.notes \ DOMAIN disk.notes :
                     \E i \in 1..Len(backup.userData) :
                         /\ backup.userData[i].hasNotes
                         /\ backup.userData[i].username = k[1]
                         /\ k[2] \in DOMAIN backup.userData[i].notes
                         /\ disk'.notes[k] = backup.userData[i].notes[k[2]]]_vars

\* an import has run over a markdown file that the backup carries with another text
C15_Witness ==
    /\ resp.op = "import"
    /\ resp.backup = Backup.name
    /\ Key("admin", "n1") \in DOMAIN disk.notes
    /\ disk.notes[Key("admin", "n1")] # Backup.userData[1].notes["n1"]

\* C16: an import of the document that was imported by the request before it
\* changes nothing on disk and reports no imported account and no imported note
C16_ImportIdempotent ==
    [][\A backup \in {Backup, IndexOnlyBackup} :
          (ImportBackup(backup) /\ resp.op = "import" /\ resp.backup = backup.name) =>
              /\ disk' = disk
              /\ resp'.importedUsers = 0
              /\ resp'.importedNotes = 0]_vars

\* the backup that brought bob and a note has been imported again
C16_Witness ==
    /\ resp.op = "import"
    /\ resp.backup = Backup.name
    /\ resp.importedUsers = 0 /\ resp.importedNotes = 0
    /\ "bob" \in DOMAIN disk.users
    /\ "n1" \in DOMAIN LoadUserDatabase(disk, "admin")
    /\ LoadUserDatabase(disk, "admin")["n1"] = BackupNote

----------------------------------------------------------------------------
(* Claims about an import that is cut short or runs beside a save *)

\* the accounts, index entries and markdown files of disk before are on disk after
NothingLost(before, after) ==
    /\ \A u \in DOMAIN before.users :
           u \in DOMAIN after.users /\ after.users[u] = before.users[u]
    /\ \A u \in DOMAIN before.db :
           \A n \in DOMAIN LoadUserDatabase(before, u) :
               /\ n \in DOMAIN LoadUserDatabase(after, u)
               /\ LoadUserDatabase(after, u)[n] = LoadUserDatabase(before, u)[n]
    /\ \A k \in DOMAIN before.notes :
           k \in DOMAIN after.notes /\ after.notes[k] = before.notes[k]

\* C17: whenever an import that was cut short after some of its file operations
\* has been sent again and has completed, the disk is the one an uninterrupted
\* import leaves, and at no point of an import is an account, an index entry or a
\* markdown file that was there before it missing or changed
C17_ImportCrashRecovery ==
    \A p \in ProcIds :
        procs[p].backup # "none" =>
            /\ NothingLost(procs[p].start, disk)
            /\ procs[p].pc = "done" =>
                   disk = ImportEffect(procs[p].start, BackupNamed(procs[p].backup))

\* C18: once an import and a save of a note of a user the import touches have
\* both completed, the note's index entry and markdown file are those of the save
C18_ImportKeepsLocalEdits ==
    \A i \in ProcIds, w \in ProcIds :
        ( /\ procs[i].op = "import" /\ procs[i].pc = "done"
          /\ procs[w].op = "save" /\ procs[w].pc = "done" ) =>
            /\ procs[w].noteId \in DOMAIN LoadUserDatabase(disk, procs[w].userId)
            /\ LoadUserDatabase(disk, procs[w].userId)[procs[w].noteId]
                   = MetadataOf(procs[w].data)
            /\ ReadNoteFile(disk, procs[w].userId, procs[w].noteId)
                   = OrElse(procs[w].data.markdown, "")

----------------------------------------------------------------------------
(* Claims about search (SpecSearch) *)

\* C21: a search returns a note of the user exactly when the query, in lower case,
\* occurs in the lower-cased title, content, one of the tags or one of the groups
C21_SearchMatches ==
    resp.op = "search" =>
        LET index == LoadUserDatabase(disk, resp.userId)
            query == ToLowerCase(Spell(resp.query))
        IN  \A n \in DOMAIN index :
                (n \in {r.path : r \in resp.results}) <=>
                    \/ Includes(ToLowerCase(Spell(index[n].title)), query)
                    \/ Includes(ToLowerCase(Spell(ReadNoteFile(disk, resp.userId, n))), query)
                    \/ \E i \in 1..Len(OrElseList(index[n].tags, <<>>)) :
                           Includes(ToLowerCase(Spell(index[n].tags[i])), query)
                    \/ \E i \in 1..Len(OrElseList(index[n].groups, <<>>)) :
                           Includes(ToLowerCase(Spell(index[n].groups[i])), query)

----------------------------------------------------------------------------
(* Claims about ensureUserDir and the users index *)

\* the users listed in _system/users-index.json
Registered(d) == {d.usersIndex[i] : i \in 1..Len(d.usersIndex)}

\* C22: after a request that has called ensureUserDir for a user, the user's
\* database.json and notes directory exist, the user is listed in the users index,
\* and calling ensureUserDir again would change nothing
C22_EnsureUserDir ==
    resp.op = "list" =>
        /\ resp.userId \in DOMAIN disk.db
        /\ resp.userId \in disk.notesDirs
        /\ disk.usersIndexExists /\ resp.userId \in Registered(disk)
        /\ EnsureUserDir(disk, resp.userId) = disk


\* C23: the users index never lists a user twice, and a user it lists is still
\* listed after every step of the server, overlapping registrations and backup
\* imports included
C23_RegistryGrows ==
    [][/\ \A i, j \in 1..Len(disk'.usersIndex) :
              disk'.usersIndex[i] = disk'.usersIndex[j] => i = j
       /\ Registered(disk) \subseteq Registered(disk')]_vars


----------------------------------------------------------------------------
(* Claims about the stores of several users (SpecIsolation) *)

\* C24: a note request of one user (create, save, metadata update, delete, share,
\* revoke) leaves the database.json, markdown files and media of every other user
\* as they were
C24_UserIsolation ==
    [][resp'.op \in {"new", "save", "metadata", "delete", "share", "revoke"} =>
           \A v \in DOMAIN disk.users :
               v # resp'.userId => UserStore(disk', v) = UserStore(disk, v)]_vars


----------------------------------------------------------------------------
(* Claims about files that cannot be read (SpecFaults) *)

\* the notes of a user whose markdown file can be read
ReadableNotes(d, userId) ==
    {n \in DOMAIN LoadUserDatabase(d, userId) : CanReadNoteFile(d, userId, n)}

\* C25: a listing, a search and an export leave out a note that cannot be read and
\* still return every readable note of the same user (for a search: every readable
\* note whose title holds the query)
C25_SkipUnreadable ==
    /\ resp.op = "list" =>
           \A n \in ReadableNotes(disk, resp.userId) :
               \E i \in 1..Len(resp.list) : resp.list[i].id = n
    /\ resp.op = "search" /\ resp.query \in {"", "ab"} =>
           \A n \in ReadableNotes(disk, resp.userId) :
               \E r \in resp.results : r.path = n
    /\ resp.op = "export" =>
           \A u \in DOMAIN disk.users :
               \A n \in ReadableNotes(disk, u) :
                   n \in DOMAIN resp.document.userData[u].notes


----------------------------------------------------------------------------
(* Claims about the server start (SpecStartUp) *)

\* C26: when the start-up initialisation has completed, data/_system and a users
\* index that parses exist, and admin's directory, database.json and notes
\* directory exist
C26_StartUpComplete ==
    resp.op = "start" =>
        /\ disk.systemDir /\ disk.usersIndexExists
        /\ "admin" \in disk.userDirs
        /\ "admin" \in DOMAIN disk.db
        /\ "admin" \in disk.notesDirs


----------------------------------------------------------------------------
(* Claims about the scripts (SpecScripts) *)

\* C27: a run of init-existing-users leaves every database.json that exists as it
\* is, and a second run right after it changes nothing on disk
C27_InitIdempotent ==
    [][resp'.op = "initUsers" =>
           /\ \A u \in DOMAIN disk.db :
                  disk'.db[u] = disk.db[u] /\ (u \in disk'.torn <=> u \in disk.torn)
           /\ InitExistingUsers(disk') = disk']_vars

\* a run of init-existing-users that wrote bob's database.json from his note
\* directories and left admin's, which holds the demo note, alone
C27_Witness ==
    /\ resp.op = "initUsers"
    /\ "bob" \in resp.created /\ "n1" \in DOMAIN disk.db["bob"]
    /\ "admin" \in resp.kept /\ "welcome" \in DOMAIN disk.db["admin"]


\* C28: a run of migrate-to-database or of migrate-notes without --execute leaves
\* the disk as it was
C28_DryRunChangesNothing ==
    [][resp'.op \in {"migrateDatabase", "migrateNotes"} /\ resp'.dryRun =>
           disk' = disk]_vars

\* the note a directory holds for the server before the migration
LegacyNote(d, k) == ReadLegacyNoteData(d, k[1], k[2])

\* the files of a note directory
LegacyDir(d, k) ==
    [meta |-> IF k \in DOMAIN d.legacyMeta THEN <<d.legacyMeta[k]>> ELSE <<>>,
     content |-> IF k \in DOMAIN d.legacyContent THEN <<d.legacyContent[k]>> ELSE <<>>,
     note |-> IF k \in DOMAIN d.legacyNote THEN <<d.legacyNote[k]>> ELSE <<>>,
     media |-> k \in d.legacyMedia]

\* C29: after migrate-to-database --execute, every note readLegacyNoteData could
\* read before is an entry of the user's database.json with the same metadata and
\* a notes/<id>.md with the same content (empty for a note.json without
\* markdown), and a directory that could not be read is as it was
C29_MigrationPreserves ==
    [][resp'.op = "migrateDatabase" /\ ~resp'.dryRun =>
           \A u \in disk.userDirs : \A n \in LegacyNoteDirs(disk, u) :
               LET k == <<u, n>>
               IN  IF LegacyNote(disk, k).found
                   THEN /\ u \in DOMAIN disk'.db /\ n \in DOMAIN disk'.db[u]
                        /\ disk'.db[u][n] = MetadataOf(LegacyNote(disk, k).data)
                        /\ k \in DOMAIN disk'.notes
                        /\ disk'.notes[k] = OrElse(LegacyNote(disk, k).data.markdown, "")
                   ELSE LegacyDir(disk', k) = LegacyDir(disk, k)]_vars

\* a migration that moved bob's note.json note and left his unreadable directory
C29_Witness ==
    /\ resp.op = "migrateDatabase" /\ ~resp.dryRun
    /\ <<"bob", "n1">> \in resp.migrated
    /\ <<"bob", LegacyNoteId>> \in resp.skipped
    /\ "n1" \in DOMAIN disk.db["bob"]
    /\ <<"bob", "n1">> \notin DOMAIN disk.legacyNote
    /\ <<"bob", LegacyNoteId>> \in DOMAIN disk.legacyContent


----------------------------------------------------------------------------
(* Claims about what a save keeps (Spec) *)

\* C30: a save, a metadata update, a share and a revoke of a note that is in the
\* index leave its createdAt as it was; a save also leaves its shareId, and its
\* password hash when the request has isPasswordProtected set and sends no
\* password
C30_SaveKeeps ==
    [][/\ resp'.op \in {"save", "metadata", "share", "revoke"}
       /\ resp'.noteId \in DOMAIN LoadUserDatabase(disk, resp'.userId)
       =>
       LET old == LoadUserDatabase(disk, resp'.userId)[resp'.noteId]
           index == LoadUserDatabase(disk', resp'.userId)
       IN  /\ resp'.noteId \in DOMAIN index
           /\ index[resp'.noteId].createdAt = old.createdAt
           /\ resp'.op = "save" =>
                  /\ index[resp'.noteId].shareId = old.shareId
                  /\ (Truthy(resp'.prot) /\ ~Truthy(resp'.password)
                      /\ old.password # NoHash) =>
                         index[resp'.noteId].password = old.password]_vars

\* a shared, protected note created earlier has been saved with protection kept
\* and no password sent
C30_Witness ==
    /\ resp.op = "save" /\ resp.wrote /\ resp.status = 200
    /\ Truthy(resp.prot) /\ ~Truthy(resp.password)
    /\ resp.data.createdAt < resp.data.updatedAt
    /\ resp.data.shareId # Undef
    /\ resp.data.password # NoHash
    /\ LoadUserDatabase(disk, resp.userId)[resp.noteId] = MetadataOf(resp.data)


----------------------------------------------------------------------------
(* Claims about the index and the markdown files (SpecBackup) *)

\* C31: between requests, every note of a user's database.json has its markdown
\* file under notes/
C31_IndexedHasFile ==
    \A u \in DOMAIN disk.db :
        \A n \in DOMAIN LoadUserDatabase(disk, u) : Key(u, n) \in DOMAIN disk.notes


----------------------------------------------------------------------------
(* Claims about a database.json that is being written (SpecTorn) *)

\* the notes whose entry a save in flight is about to write or is writing
BeingWritten(userId) ==
    {procs[p].noteId : p \in {q \in ProcIds :
        procs[q].userId = userId /\ procs[q].pc \in {"saveWrite", "saveWriting"}}}

\* C32: a write of a note leaves the entry of every other note of the user in
\* database.json as it was, also when database.json could not be parsed when the
\* write loaded it
C32_WriteKeepsOthers ==
    [][\A u \in DOMAIN disk.db : \A n \in DOMAIN disk.db[u] \ BeingWritten(u) :
           n \in DOMAIN disk'.db[u] /\ disk'.db[u][n] = disk.db[u][n]]_vars


----------------------------------------------------------------------------
(* Claims about deleted notes (SpecStore) *)

\* C33: when a delete of a note has answered, readNoteData of that note throws,
\* whether the note was in database.json or in a legacy directory
C33_DeletedIsNotFound ==
    (resp.op = "delete" /\ resp.status = 200) =>
        ~ReadNoteData(disk, resp.userId, resp.noteId).found


----------------------------------------------------------------------------
(* Claims about shared notes whose protection flag is set (Spec) *)

\* C34: GET /api/shared/<token> of a note whose isPasswordProtected is true
\* answers with the note only when the password of the request verifies against
\* the hash stored with the note
C34_ProtectedNeedsPassword ==
    \A token \in DOMAIN disk.shared : \A password \in Passwords :
        LET fileData == ReadNoteData(disk, disk.shared[token].userId,
                                     disk.shared[token].noteId)
        IN  (/\ fileData.found
             /\ Truthy(fileData.data.isPasswordProtected)
             /\ AccessShared(disk, token, password).status = 200)
            => Compare(password, fileData.data.password)


----------------------------------------------------------------------------
(* Claims about share requests in flight (SpecShareConc) *)

\* C35: when no request is in flight, no two share files name the same note of
\* the same user, and the token of every share file is the shareId of the note
\* it names
C35_OneShareEntry ==
    (\A p \in ProcIds : procs[p].pc \in {"idle", "done"}) =>
        /\ \A t1, t2 \in DOMAIN disk.shared :
               (disk.shared[t1].userId = disk.shared[t2].userId
                /\ disk.shared[t1].noteId = disk.shared[t2].noteId) => t1 = t2
        /\ \A t \in DOMAIN disk.shared :
               LET index == LoadUserDatabase(disk, disk.shared[t].userId)
               IN  /\ disk.shared[t].noteId \in DOMAIN index
                   /\ index[disk.shared[t].noteId].shareId = t


----------------------------------------------------------------------------
(* Claims about the admin routes (SpecAdmins) *)

\* C36: after any admin user-management requests, some account has isAdmin
C36_SomeAdmin == Admins(disk.users) # {}


----------------------------------------------------------------------------
(* Claims about the login lockout (SpecLockout) *)

\* the client's address has 5 recorded failures and their window has not elapsed
LockedOut(p) ==
    /\ procs[p].attempts.count >= MAX_LOGIN_ATTEMPTS
    /\ clock - procs[p].attempts.timestamp <= LOCKOUT_TIME

\* the client's address has recorded failures whose window has elapsed
WindowElapsed(p) ==
    /\ procs[p].attempts # NoRecord
    /\ clock - procs[p].attempts.timestamp > LOCKOUT_TIME

\* C37 as stated: a locked-out address gets 429 for every login request, and once
\* the window has elapsed the old record is gone and the credentials decide
C37_EveryLoginRejected ==
    [][\A p \in ProcIds, username \in LoginNames, password \in LoginPasswords :
          Login(p, username, password) =>
              /\ LockedOut(p) => resp'.status = 429
              /\ WindowElapsed(p) =>
                     /\ resp'.status # 429
                     /\ procs'[p].attempts.count <= 1]_vars

\* C37 (amended): a locked-out address gets 429 for every login request that
\* carries a username and a password (400 for one that does not), correct
\* credentials included; once the window has elapsed the old record is gone and
\* the credentials decide
C37_Lockout ==
    [][\A p \in ProcIds, username \in LoginNames, password \in LoginPasswords :
          Login(p, username, password) =>
              /\ LockedOut(p) =>
                     resp'.status = IF Truthy(username) /\ Truthy(password)
                                    THEN 429 ELSE 400
              /\ WindowElapsed(p) =>
                     /\ resp'.status =
                            IF ~Truthy(username) \/ ~Truthy(password) THEN 400
                            ELSE IF username \in DOMAIN disk.users /\ ValidPassword(password)
                            THEN 200 ELSE 401
                     /\ (resp'.status = 200 => procs'[p].attempts = NoRecord)
                     /\ (resp'.status = 401 =>
                            procs'[p].attempts = [count |-> 1, timestamp |-> clock])]_vars

\* a locked-out address was refused with the right credentials
C37_Witness ==
    /\ resp.op = "login" /\ resp.status = 429
    /\ resp.userId = "admin" /\ ValidPassword(resp.password)
    /\ \E p \in ProcIds : LockedOut(p)


----------------------------------------------------------------------------
(* Claims about a migration that is repeated or stopped (SpecScripts, SpecMigration) *)

\* C38: migrate-to-database --execute, run again right after a run with
\* --execute, keeps every entry of every user's database.json
C38_RerunKeepsIndex ==
    [][(resp.op = "migrateDatabase" /\ ~resp.dryRun /\ RunMigrateToDatabase(FALSE)) =>
          \A u \in DOMAIN disk.db : \A n \in DOMAIN disk.db[u] :
              /\ u \in DOMAIN disk'.db
              /\ n \in DOMAIN disk'.db[u]
              /\ disk'.db[u][n] = disk.db[u][n]]_vars


\* C39: while migrate-to-database --execute runs, the metadata of every note it
\* has read is on disk: in the note's directory or in the user's database.json
C39_MetadataOnDisk ==
    \A p \in ProcIds : procs[p].op = "migrateDatabase" =>
        \A n \in DOMAIN procs[p].database :
            LET scan == ScanLegacyNote(disk, procs[p].userId, n)
                index == LoadUserDatabase(disk, procs[p].userId)
            IN  \/ scan.found /\ MetadataOf(scan.data) = procs[p].database[n]
                \/ n \in DOMAIN index /\ index[n] = procs[p].database[n]

====
